---------------------------- MODULE Spec2Model ----------------------------
(***************************************************************************)
(* Model of MatrixCalculator: the row-reduction engine RREF<T> (RREF.h),   *)
(* the linear-system solver SolvingEquation<T> (SolvingEquation.h) and the *)
(* deferred Matrix<T>::rank / Matrix<T>::eigen (RREF.h), over the dense    *)
(* containers of matrix.h and vector.h, instantiated at T = double as in   *)
(* main.cpp.                                                               *)
(*                                                                         *)
(* Scalars are exact rationals <<n, d>> in lowest terms with d > 0: the    *)
(* model follows every comparison, threshold and branch of the code but    *)
(* carries no rounding error.  Indices are 0-based as in the code:         *)
(* a matrix is [rows, cols, data] with data a function on                  *)
(* 0..rows-1 -> 0..cols-1; std::vector<int> fields are sequences of        *)
(* 0-based indices.                                                        *)
(***************************************************************************)
EXTENDS Integers, Sequences, FiniteSets, TLC

VARIABLES A, eng, other, sol, rk, out

vars == <<A, eng, other, sol, rk, out>>

(***************************************************************************)
(* Bounds of the model.                                                    *)
(***************************************************************************)
MaxRows == 2
MaxCols == 3
MaxVal == 2

(***************************************************************************)
(* Scalars: exact rational arithmetic.                                     *)
(***************************************************************************)
RECURSIVE GCD(_, _)
GCD(a, b) == IF b = 0 THEN a ELSE GCD(b, a % b)

AbsInt(n) == IF n < 0 THEN -n ELSE n

Q(n, d) ==
    LET s == IF d < 0 THEN -1 ELSE 1
        g == GCD(AbsInt(n), AbsInt(d))
    IN  <<(s * n) \div g, (s * d) \div g>>

Zero == <<0, 1>>
One == <<1, 1>>
FromInt(n) == <<n, 1>>

Neg(a) == <<-a[1], a[2]>>
Abs(a) == <<AbsInt(a[1]), a[2]>>

Mul(a, b) ==
    LET g1 == GCD(AbsInt(a[1]), b[2])
        g2 == GCD(AbsInt(b[1]), a[2])
    IN  <<(a[1] \div g1) * (b[1] \div g2), (a[2] \div g2) * (b[2] \div g1)>>

\* 1 / a; the divisor is never zero where the code divides (were it zero,
\* the \div below would stop TLC instead of inventing a value)
Inv(a) ==
    <<(IF a[1] < 0 THEN -1 ELSE 1) * a[2],
      AbsInt(a[1]) \div (IF a[1] = 0 THEN 0 ELSE 1)>>

Div(a, b) == Mul(a, Inv(b))

Add(a, b) ==
    LET g == GCD(a[2], b[2])
    IN  Q(a[1] * (b[2] \div g) + b[1] * (a[2] \div g), (a[2] \div g) * b[2])

Sub(a, b) == Add(a, Neg(b))

\* floor of a rational and the comparison a < b by continued fractions, so
\* that no cross product is formed
Floor(a) == a[1] \div a[2]

RECURSIVE Lt(_, _)
Lt(a, b) ==
    LET fa == Floor(a)
        fb == Floor(b)
        ra == a[1] - fa * a[2]
        rb == b[1] - fb * b[2]
    IN  IF fa # fb THEN fa < fb
        ELSE IF rb = 0 THEN FALSE
        ELSE IF ra = 0 THEN TRUE
        ELSE Lt(<<b[2], rb>>, <<a[2], ra>>)

Gt(a, b) == Lt(b, a)

(***************************************************************************)
(* Thresholds of the code.                                                 *)
(***************************************************************************)
\* 1e-9 is 1 / EpsDen
EpsDen == 1000000000
\* default argument eps = 1e-9 of toREF, toRREF, getKernel, computeSolution
DefaultEps == <<1, EpsDen>>
\* the literal 1e-9 of scaleRow and addScaledRow (floating-point T only)
FpGuard == <<1, EpsDen>>


(***************************************************************************)
(* vector.h: Vector<T> is a function on 0..n-1.                            *)
(***************************************************************************)
VecSize(v) == Cardinality(DOMAIN v)

\* Vector(int n, T val)
ConstVector(n, val) == [i \in 0..(n - 1) |-> val]

RECURSIVE DotFrom(_, _, _)
DotFrom(u, v, i) ==
    IF i >= VecSize(u) THEN Zero
    ELSE Add(Mul(u[i], v[i]), DotFrom(u, v, i + 1))

\* Vector::dot (sizes agree wherever the model calls it)
Dot(u, v) == DotFrom(u, v, 0)

\* Vector::operator*(T)
VecScale(v, k) == [i \in DOMAIN v |-> Mul(v[i], k)]

\* Vector::operator-=
VecSub(u, v) == [i \in DOMAIN u |-> Sub(u[i], v[i])]

\* std::sqrt on the rationals: the root when it is rational.  ISqrt is the
\* integer square root (Newton's iteration from a start above the root).
RECURSIVE ISqrtFrom(_, _)
ISqrtFrom(n, x) ==
    LET y == (x + n \div x) \div 2
    IN  IF y >= x THEN x ELSE ISqrtFrom(n, y)

ISqrt(n) == IF n = 0 THEN 0 ELSE ISqrtFrom(n, IF n > 46340 THEN 46340 ELSE n)

IsSquareInt(n) == ISqrt(n) * ISqrt(n) = n

\* the square root of q has a rational value
SqrtExact(q) == q[1] >= 0 /\ IsSquareInt(q[1]) /\ IsSquareInt(q[2])

\* that value when SqrtExact(q); otherwise the roots of numerator and
\* denominator rounded down, which no action of the model uses
Sqrt(q) == Q(ISqrt(AbsInt(q[1])), ISqrt(q[2]))

\* Vector::norm
Norm(v) == Sqrt(Dot(v, v))

NormExact(v) == SqrtExact(Dot(v, v))

\* Vector::normalized(eps = 1e-9): [v |-> the result, err]
NormalizedBy(v, n) ==
    IF Lt(n, DefaultEps) THEN [v |-> v, err |-> "invalid_argument"]
    ELSE [v |-> VecScale(v, Div(One, n)), err |-> "none"]

normalized(v) == NormalizedBy(v, Norm(v))

(***************************************************************************)
(* matrix.h: Matrix<T>.                                                    *)
(***************************************************************************)
\* Matrix(int r, int c): r x c, every entry T()
NewMatrix(r, c) ==
    [rows |-> r, cols |-> c,
     data |-> [i \in 0..(r - 1) |-> [j \in 0..(c - 1) |-> Zero]]]

\* Matrix(): 0 x 0
EmptyMatrix == NewMatrix(0, 0)

\* Matrix(int r, int c) with its check: [m, err].  The member initializer
\* builds data(r, vector(c)) before the body tests r <= 0 || c <= 0, and a
\* negative size makes std::vector throw length_error
MatrixOfDims(r, c) ==
    IF c < 0 \/ r < 0 THEN [m |-> EmptyMatrix, err |-> "length_error"]
    ELSE IF r <= 0 \/ c <= 0 THEN [m |-> EmptyMatrix, err |-> "invalid_argument"]
    ELSE [m |-> NewMatrix(r, c), err |-> "none"]

\* rows = v.size(), cols = v[0].size(), data = v: each row keeps its own
\* length
RowsOf(v) ==
    [rows |-> Len(v), cols |-> Len(v[1]),
     data |-> [i \in 0..(Len(v) - 1) |->
                [j \in 0..(Len(v[i + 1]) - 1) |-> v[i + 1][j + 1]]]]

\* Matrix(const std::vector<std::vector<T>>& v): [m, err]
MatrixFromRows(v) ==
    IF v = <<>> \/ v[1] = <<>>
    THEN [m |-> EmptyMatrix, err |-> "invalid_argument"]
    ELSE IF \E i \in 1..Len(v) : Len(v[i]) # Len(v[1])
    THEN [m |-> EmptyMatrix, err |-> "invalid_argument"]
    ELSE [m |-> RowsOf(v), err |-> "none"]

\* Matrix(std::vector<std::vector<T>>&& v) noexcept: [m, err]
MatrixFromMovedRows(v) ==
    IF v = <<>> \/ v[1] = <<>>
    THEN [m |-> EmptyMatrix, err |-> "none"]
    ELSE [m |-> RowsOf(v), err |-> "none"]

At(m, r, c) == m.data[r][c]

SetAt(m, r, c, x) == [m EXCEPT !.data[r][c] = x]

identity(n) ==
    [rows |-> n, cols |-> n,
     data |-> [i \in 0..(n - 1) |->
                [j \in 0..(n - 1) |-> IF i = j THEN One ELSE Zero]]]

exchangeRows(m, r1, r2) ==
    [m EXCEPT !.data = [@ EXCEPT ![r1] = m.data[r2], ![r2] = m.data[r1]]]

\* scaleRow throws std::invalid_argument when fabs(scalar) < 1e-9
scaleRowThrows(scalar) == Lt(Abs(scalar), FpGuard)

scaleRow(m, r, scalar) ==
    [m EXCEPT !.data[r] = [j \in 0..(m.cols - 1) |-> Mul(m.data[r][j], scalar)]]

\* addScaledRow returns without touching the row when fabs(scalar) < 1e-9
addScaledRowSkip(scalar) == Lt(Abs(scalar), FpGuard)

addScaledRow(m, targetRow, sourceRow, scalar) ==
    IF addScaledRowSkip(scalar) THEN m
    ELSE [m EXCEPT !.data[targetRow] =
            [j \in 0..(m.cols - 1) |->
                Add(m.data[targetRow][j], Mul(m.data[sourceRow][j], scalar))]]

transpose(m) ==
    [rows |-> m.cols, cols |-> m.rows,
     data |-> [c \in 0..(m.cols - 1) |-> [r \in 0..(m.rows - 1) |-> m.data[r][c]]]]

\* operator-(const Matrix&) on equal shapes
MatSub(m, o) ==
    [m EXCEPT !.data = [i \in 0..(m.rows - 1) |->
        [j \in 0..(m.cols - 1) |-> Sub(m.data[i][j], o.data[i][j])]]]

\* operator*(T scalar)
MatScale(m, scalar) ==
    [m EXCEPT !.data = [i \in 0..(m.rows - 1) |->
        [j \in 0..(m.cols - 1) |-> Mul(m.data[i][j], scalar)]]]

RECURSIVE MulEntry(_, _, _, _, _)
MulEntry(m, o, i, j, k) ==
    IF k >= m.cols THEN Zero
    ELSE Add(Mul(m.data[i][k], o.data[k][j]), MulEntry(m, o, i, j, k + 1))

\* operator*(const Matrix&) with cols == other.rows
MatMul(m, o) ==
    [rows |-> m.rows, cols |-> o.cols,
     data |-> [i \in 0..(m.rows - 1) |->
                [j \in 0..(o.cols - 1) |-> MulEntry(m, o, i, j, 0)]]]

getCol(m, c) == [i \in 0..(m.rows - 1) |-> m.data[i][c]]

\* augment: the caller has checked rows == other.rows
augment(m, o) ==
    [rows |-> m.rows, cols |-> m.cols + o.cols,
     data |-> [i \in 0..(m.rows - 1) |->
                [j \in 0..(m.cols + o.cols - 1) |->
                    IF j < m.cols THEN m.data[i][j] ELSE o.data[i][j - m.cols]]]]

isSquare(m) == m.rows = m.cols

\* qr_decomposition lines 471-474: u after the projections on q_cols[0..j-1]
\* are subtracted (q_cols is a sequence, q_cols[j + 1] is the code's q_cols[j])
RECURSIVE Orthogonalize(_, _, _, _, _)
Orthogonalize(u, a_col, q_cols, j, i) ==
    IF j >= i THEN u
    ELSE LET r_ji == Dot(q_cols[j + 1], a_col)
         IN  Orthogonalize(VecSub(u, VecScale(q_cols[j + 1], r_ji)),
                           a_col, q_cols, j + 1, i)

\* qr_decomposition lines 475-477: q_cols after u is pushed, as it is or
\* divided by its norm r_ii
PushColumn(q_cols, u, r_ii) ==
    IF Lt(Abs(r_ii), FpGuard) THEN Append(q_cols, u)
    ELSE Append(q_cols, VecScale(u, Div(One, r_ii)))

\* qr_decomposition lines 469-478: s is [q_cols, exact]; exact turns FALSE
\* when a norm has no rational value, and the loop is then abandoned
RECURSIVE GramSchmidt(_, _, _)
RECURSIVE GramSchmidtColumn(_, _, _, _)
GramSchmidtColumn(m, s, i, u) ==
    IF ~NormExact(u) THEN [s EXCEPT !.exact = FALSE]
    ELSE GramSchmidt(m, [s EXCEPT !.q_cols = PushColumn(@, u, Norm(u))], i + 1)

GramSchmidt(m, s, i) ==
    IF i >= m.rows \/ ~s.exact THEN s
    ELSE GramSchmidtColumn(m, s, i,
             Orthogonalize(getCol(m, i), getCol(m, i), s.q_cols, 0, i))

\* qr_decomposition lines 480-483: Q from its columns
QFromColumns(n, q_cols) ==
    [rows |-> n, cols |-> n,
     data |-> [i \in 0..(n - 1) |-> [j \in 0..(n - 1) |-> q_cols[j + 1][i]]]]

\* qr_decomposition lines 486-488: the entries below the diagonal zeroed
UpperTriangle(R0) ==
    [R0 EXCEPT !.data = [i \in 0..(R0.rows - 1) |->
        [j \in 0..(R0.cols - 1) |-> IF j < i THEN Zero ELSE R0.data[i][j]]]]

\* qr_decomposition lines 485-489
QRFromQ(m, Qm) ==
    [Q |-> Qm, R |-> UpperTriangle(MatMul(transpose(Qm), m)), exact |-> TRUE]

QRFromColumns(m, gs) ==
    IF ~gs.exact THEN [Q |-> m, R |-> m, exact |-> FALSE]
    ELSE QRFromQ(m, QFromColumns(m.rows, gs.q_cols))

\* qr_decomposition() on a square matrix: [Q, R, exact]
qr_decomposition(m) ==
    QRFromColumns(m, GramSchmidt(m, [q_cols |-> <<>>, exact |-> TRUE], 0))

(***************************************************************************)
(* RREF.h: class RREF<T>.  An engine is the record of its fields           *)
(* mat, rank, pivotCols, pivotRows, isREF, isRREF.  The extra field        *)
(* dropped is a history flag, not a field of the class: it becomes TRUE    *)
(* when a threshold of the code discards a nonzero value (a nonzero entry  *)
(* below eps treated as zero, or a row operation skipped by addScaledRow   *)
(* for a nonzero factor below 1e-9).                                       *)
(***************************************************************************)
\* RREF(const Matrix<T>& inputMat) : mat(inputMat), rank(0)
NewRREF(inputMat) ==
    [mat |-> inputMat, rank |-> 0, pivotCols |-> <<>>, pivotRows |-> <<>>,
     isREF |-> FALSE, isRREF |-> FALSE, dropped |-> FALSE]

\* toREF lines 32-40: the first row at or below pivotRow whose entry in col
\* has the largest magnitude; row is the next row to look at
RECURSIVE MaxIndexFrom(_, _, _, _)
MaxIndexFrom(m, col, row, max_index) ==
    IF row >= m.rows THEN max_index
    ELSE IF Gt(Abs(At(m, row, col)), Abs(At(m, max_index, col)))
         THEN MaxIndexFrom(m, col, row + 1, row)
         ELSE MaxIndexFrom(m, col, row + 1, max_index)

\* toREF lines 52-60: eliminate column col in rows row..rows-1 below pivotRow
RECURSIVE EliminateBelow(_, _, _, _, _)
EliminateBelow(m, row, pivotRow, col, eps) ==
    IF row >= m.rows THEN m
    ELSE IF Lt(Abs(At(m, row, col)), eps)
         THEN EliminateBelow(SetAt(m, row, col, Zero), row + 1, pivotRow, col, eps)
         ELSE LET factor == Neg(Div(At(m, row, col), At(m, pivotRow, col)))
                  m1 == addScaledRow(m, row, pivotRow, factor)
              IN  EliminateBelow(SetAt(m1, row, col, Zero), row + 1, pivotRow, col, eps)

\* history: the elimination of column col below pivotRow discards a nonzero
\* entry, or forces an entry to zero whose row operation was skipped
DropsBelow(m, pivotRow, col, eps) ==
    \E row \in (pivotRow + 1)..(m.rows - 1) :
        LET x == At(m, row, col)
        IN  \/ x # Zero /\ Lt(Abs(x), eps)
            \/ ~Lt(Abs(x), eps)
               /\ addScaledRowSkip(Neg(Div(x, At(m, pivotRow, col))))

\* toREF lines 30-62: the loop over columns.  e carries mat, rank and the
\* pivot vectors, pivotRow is the local of that name.  ToREFLoop is the loop
\* head and the pivot search, ToREFColumn the test of line 42 and the
\* exchange of lines 44-46, ToREFPivot lines 48-61 on the exchanged matrix.
RECURSIVE ToREFLoop(_, _, _, _)
RECURSIVE ToREFColumn(_, _, _, _, _)
RECURSIVE ToREFPivot(_, _, _, _, _)
\* ToREFPivot without the pivotRow++ of line 61
ToREFPivotSameRow(e, m1, col, pivotRow, eps) ==
    ToREFLoop([e EXCEPT !.mat = EliminateBelow(m1, pivotRow + 1, pivotRow, col, eps),
                        !.rank = @ + 1,
                        !.pivotCols = Append(@, col),
                        !.pivotRows = Append(@, pivotRow),
                        !.dropped = @ \/ DropsBelow(m1, pivotRow, col, eps)],
              col + 1, pivotRow, eps)

\* ToREFPivot with the loop of line 52 starting one row lower
ToREFPivotSkipRow(e, m1, col, pivotRow, eps) ==
    ToREFLoop([e EXCEPT !.mat = EliminateBelow(m1, pivotRow + 2, pivotRow, col, eps),
                        !.rank = @ + 1,
                        !.pivotCols = Append(@, col),
                        !.pivotRows = Append(@, pivotRow),
                        !.dropped = @ \/ DropsBelow(m1, pivotRow, col, eps)],
              col + 1, pivotRow + 1, eps)

ToREFPivot(e, m1, col, pivotRow, eps) ==
    ToREFLoop([e EXCEPT !.mat = EliminateBelow(m1, pivotRow + 1, pivotRow, col, eps),
                        !.rank = @ + 1,
                        !.pivotCols = Append(@, col),
                        !.pivotRows = Append(@, pivotRow),
                        !.dropped = @ \/ DropsBelow(m1, pivotRow, col, eps)],
              col + 1, pivotRow + 1, eps)

ToREFColumn(e, max_index, col, pivotRow, eps) ==
    IF Lt(Abs(At(e.mat, max_index, col)), eps)
    THEN ToREFLoop([e EXCEPT !.dropped = @ \/ At(e.mat, max_index, col) # Zero],
                   col + 1, pivotRow, eps)
    ELSE ToREFPivot(e,
                    IF max_index # pivotRow
                    THEN exchangeRows(e.mat, max_index, pivotRow)
                    ELSE e.mat,
                    col, pivotRow, eps)

\* ToREFLoop with the loop of line 30 leaving one row early
ToREFLoopRowShort(e, col, pivotRow, eps) ==
    IF ~(col < e.mat.cols /\ pivotRow < e.mat.rows - 1) THEN e
    ELSE ToREFColumn(e, MaxIndexFrom(e.mat, col, pivotRow + 1, pivotRow),
                     col, pivotRow, eps)

ToREFLoop(e, col, pivotRow, eps) ==
    IF ~(col < e.mat.cols /\ pivotRow < e.mat.rows) THEN e
    ELSE ToREFColumn(e, MaxIndexFrom(e.mat, col, pivotRow + 1, pivotRow),
                     col, pivotRow, eps)

\* toREF without the reset of lines 26-28
toREFNoReset(e, eps) == [ToREFLoop(e, 0, 0, eps) EXCEPT !.isREF = TRUE]

\* void toREF(T eps)
toREF(e, eps) ==
    [ToREFLoop([e EXCEPT !.rank = 0, !.pivotCols = <<>>, !.pivotRows = <<>>],
               0, 0, eps)
     EXCEPT !.isREF = TRUE]

\* toRREF lines 71-76: scale the rows of pivots i..rank-1; scaleRow throws
\* before it touches the row, the rows scaled so far stay scaled
RECURSIVE ScalePivots(_, _, _)
ScalePivots(e, m, i) ==
    IF i >= e.rank THEN [mat |-> m, err |-> "none"]
    ELSE IF scaleRowThrows(Div(One, At(m, e.pivotRows[i + 1], e.pivotCols[i + 1])))
    THEN [mat |-> m, err |-> "invalid_argument"]
    ELSE ScalePivots(e,
             scaleRow(m, e.pivotRows[i + 1],
                      Div(One, At(m, e.pivotRows[i + 1], e.pivotCols[i + 1]))),
             i + 1)

\* toRREF lines 81-89: clear column col in rows upperRow, upperRow-1, .., 0;
\* s is [mat, dropped]
RECURSIVE EliminateAbove(_, _, _, _, _)
EliminateAbove(s, upperRow, row, col, eps) ==
    IF upperRow < 0 THEN s
    ELSE IF Lt(Abs(At(s.mat, upperRow, col)), eps)
    THEN EliminateAbove([mat |-> SetAt(s.mat, upperRow, col, Zero),
                         dropped |-> s.dropped \/ At(s.mat, upperRow, col) # Zero],
                        upperRow - 1, row, col, eps)
    ELSE EliminateAbove(
             [mat |-> SetAt(addScaledRow(s.mat, upperRow, row,
                                         Neg(At(s.mat, upperRow, col))),
                            upperRow, col, Zero),
              dropped |-> s.dropped
                          \/ addScaledRowSkip(Neg(At(s.mat, upperRow, col)))],
             upperRow - 1, row, col, eps)

\* toRREF lines 78-90: pivots i, i-1, .., 0
RECURSIVE BackwardPass(_, _, _, _)
BackwardPass(e, s, i, eps) ==
    IF i < 0 THEN s
    ELSE BackwardPass(e,
             EliminateAbove(s, e.pivotRows[i + 1] - 1, e.pivotRows[i + 1],
                            e.pivotCols[i + 1], eps),
             i - 1, eps)

\* Cleanup with <= for the < of line 94
CleanupAtMostEps(m, eps) ==
    [m EXCEPT !.data = [i \in 0..(m.rows - 1) |->
        [j \in 0..(m.cols - 1) |->
            IF ~Gt(Abs(m.data[i][j]), eps) THEN Zero ELSE m.data[i][j]]]]

\* toRREF lines 92-96: every entry below eps becomes 0
Cleanup(m, eps) ==
    [m EXCEPT !.data = [i \in 0..(m.rows - 1) |->
        [j \in 0..(m.cols - 1) |->
            IF Lt(Abs(m.data[i][j]), eps) THEN Zero ELSE m.data[i][j]]]]

CleanupDrops(m, eps) ==
    \E i \in 0..(m.rows - 1), j \in 0..(m.cols - 1) :
        m.data[i][j] # Zero /\ Lt(Abs(m.data[i][j]), eps)

\* toRREF lines 92-97 on bp, the [mat, dropped] the backward pass left
ToRREFFinish(e1, bp, eps) ==
    [e |-> [e1 EXCEPT !.mat = Cleanup(bp.mat, eps),
                      !.dropped = bp.dropped \/ CleanupDrops(bp.mat, eps),
                      !.isRREF = TRUE],
     err |-> "none"]

\* toRREF lines 78-97 on sc, the [mat, err] the scaling loop left
ToRREFScaled(e1, sc, eps) ==
    IF sc.err # "none"
    THEN [e |-> [e1 EXCEPT !.mat = sc.mat], err |-> sc.err]
    ELSE ToRREFFinish(e1,
             BackwardPass(e1, [mat |-> sc.mat, dropped |-> e1.dropped],
                          e1.rank - 1, eps),
             eps)

\* toRREF lines 71-97 on e1, the engine in row-echelon form
ToRREFFromREF(e1, eps) == ToRREFScaled(e1, ScalePivots(e1, e1.mat, 0), eps)

\* void toRREF(T eps): [e |-> the engine afterwards, err |-> what it threw]
\* toRREF running toREF again whatever isREF says
toRREFAlwaysReduces(e, eps) == ToRREFFromREF(toREF(e, eps), eps)

toRREF(e, eps) == ToRREFFromREF(IF ~e.isREF THEN toREF(e, eps) ELSE e, eps)

\* int getRank() const noexcept, and the three getters next to it
getRank(e) == e.rank

getMatrix(e) == e.mat

getPivotCols(e) == e.pivotCols

getPivotRows(e) == e.pivotRows

\* void setMatrix(const Matrix<T>& m)
setMatrix(e, m) == NewRREF(m)

\* FreeColsFrom with the columns collected in descending order
RECURSIVE FreeColsDescending(_, _, _)
FreeColsDescending(pivotCols, j, n) ==
    IF j >= n THEN <<>>
    ELSE IF \E k \in 1..Len(pivotCols) : pivotCols[k] = j
         THEN FreeColsDescending(pivotCols, j + 1, n)
         ELSE FreeColsDescending(pivotCols, j + 1, n) \o <<j>>

\* getKernel lines 126-132: the columns that are no pivot column, ascending
RECURSIVE FreeColsFrom(_, _, _)
FreeColsFrom(pivotCols, j, n) ==
    IF j >= n THEN <<>>
    ELSE IF \E k \in 1..Len(pivotCols) : pivotCols[k] = j
         THEN FreeColsFrom(pivotCols, j + 1, n)
         ELSE <<j>> \o FreeColsFrom(pivotCols, j + 1, n)

\* KernelVector with the sign of line 139 lost
RECURSIVE KernelVectorNoNeg(_, _, _, _)
KernelVectorNoNeg(e, v_vec, freeCol, i) ==
    IF i >= e.rank THEN v_vec
    ELSE KernelVectorNoNeg(e,
             [v_vec EXCEPT ![e.pivotCols[i + 1]] =
                               At(e.mat, e.pivotRows[i + 1], freeCol)],
             freeCol, i + 1)

\* getKernel lines 134-140: v_vec for freeCol after the pivots 0..i-1 are
\* written
RECURSIVE KernelVector(_, _, _, _)
KernelVector(e, v_vec, freeCol, i) ==
    IF i >= e.rank THEN v_vec
    ELSE KernelVector(e,
             [v_vec EXCEPT ![e.pivotCols[i + 1]] =
                               Neg(At(e.mat, e.pivotRows[i + 1], freeCol))],
             freeCol, i + 1)

\* KernelBasis without the v_vec[freeCol] = 1 of line 135
KernelBasisNoOne(e, freeCols) ==
    [k \in 1..Len(freeCols) |->
        KernelVector(e, ConstVector(e.mat.cols, Zero), freeCols[k], 0)]

\* getKernel lines 133-142: one vector per free column
KernelBasis(e, freeCols) ==
    [k \in 1..Len(freeCols) |->
        KernelVector(e, [ConstVector(e.mat.cols, Zero) EXCEPT ![freeCols[k]] = One],
                     freeCols[k], 0)]

\* getKernel lines 122-143 on r, what toRREF left (an exception of toRREF
\* leaves getKernel)
GetKernelFromRREF(r) ==
    IF r.err # "none" THEN [e |-> r.e, err |-> r.err, basis |-> <<>>]
    ELSE [e |-> r.e, err |-> "none",
          basis |-> KernelBasis(r.e, FreeColsFrom(r.e.pivotCols, 0, r.e.mat.cols))]

\* getKernel that reduces only an engine on which nothing was run
getKernelUnlessREF(e, eps) ==
    GetKernelFromRREF(IF ~e.isREF THEN toRREF(e, eps)
                      ELSE [e |-> e, err |-> "none"])

\* std::vector<Vector<T>> getKernel(T eps):
\* [e |-> the engine afterwards, err, basis |-> the vectors returned]
getKernel(e, eps) ==
    GetKernelFromRREF(IF ~e.isRREF THEN toRREF(e, eps)
                      ELSE [e |-> e, err |-> "none"])

\* int Matrix<T>::rank() const: [val, err, dropped]; val is meaningful when
\* nothing was thrown, dropped is the history flag of the local engine
RankResult(r) == [val |-> r.e.rank, err |-> r.err, dropped |-> r.e.dropped]

rank(m) == RankResult(toRREF(NewRREF(m), DefaultEps))

\* eigen lines 169-173: A_iter after the steps k..max_iter-1;
\* s is [A_iter, steps, exact]
RECURSIVE QRIterate(_, _, _)
RECURSIVE QRStep(_, _, _, _)
\* QRStep leaving the loop when a step does not change the iterate
QRStepUntilFixed(s, qr, k, max_iter) ==
    IF ~qr.exact THEN [s EXCEPT !.exact = FALSE]
    ELSE IF MatMul(qr.R, qr.Q) = s.A_iter THEN s
    ELSE QRIterate([s EXCEPT !.A_iter = MatMul(qr.R, qr.Q), !.steps = @ + 1],
                   k + 1, max_iter)

QRStep(s, qr, k, max_iter) ==
    IF ~qr.exact THEN [s EXCEPT !.exact = FALSE]
    ELSE QRIterate([s EXCEPT !.A_iter = MatMul(qr.R, qr.Q), !.steps = @ + 1],
                   k + 1, max_iter)

QRIterate(s, k, max_iter) ==
    IF ~(k < max_iter) \/ ~s.exact THEN s
    ELSE QRStep(s, qr_decomposition(s.A_iter), k, max_iter)

\* eigen lines 186-189: v.normalized(), or v itself when that throws
NormalizedOrSelf(v, nv) == IF nv.err = "none" THEN nv.v ELSE v

\* EigenGroup with the placeholder of line 191 left out
EigenGroupNoPlaceholder(basis, rows) ==
    [k \in 1..Len(basis) |-> NormalizedOrSelf(basis[k], normalized(basis[k]))]

\* eigen lines 185-192: what one eigenvalue appends to result.eigenvectors
EigenGroup(basis, rows) ==
    IF basis # <<>>
    THEN [k \in 1..Len(basis) |-> NormalizedOrSelf(basis[k], normalized(basis[k]))]
    ELSE <<ConstVector(rows, Zero)>>

\* eigen lines 178-193: the loop over the eigenvalues i..; s is
\* [eigenvectors, err, exact]; an exception of getKernel leaves eigen
RECURSIVE EigenVectorsFrom(_, _, _, _)
RECURSIVE EigenVectorsOf(_, _, _, _, _)
EigenVectorsOf(m, eigenvalues, s, i, k) ==
    IF k.err # "none" THEN [s EXCEPT !.err = k.err]
    ELSE IF \E j \in 1..Len(k.basis) : ~NormExact(k.basis[j])
    THEN [s EXCEPT !.exact = FALSE]
    ELSE EigenVectorsFrom(m, eigenvalues,
             [s EXCEPT !.eigenvectors = @ \o EigenGroup(k.basis, m.rows)],
             i + 1)

\* eigen lines 179-180
CharacteristicMat(m, lam) == MatSub(m, MatScale(identity(m.rows), lam))

EigenVectorsFrom(m, eigenvalues, s, i) ==
    IF i > Len(eigenvalues) \/ s.err # "none" \/ ~s.exact THEN s
    ELSE EigenVectorsOf(m, eigenvalues, s, i,
             getKernel(NewRREF(CharacteristicMat(m, eigenvalues[i])), DefaultEps))

\* Diagonal reading the first row for the diagonal
DiagonalFirstRow(m) == [i \in 1..m.rows |-> At(m, 0, i - 1)]

\* eigen line 176
Diagonal(m) == [i \in 1..m.rows |-> At(m, i - 1, i - 1)]

EigenResult(it, eigenvalues, ev) ==
    [err |-> ev.err, eigenvalues |-> eigenvalues,
     eigenvectors |-> ev.eigenvectors, steps |-> it.steps,
     A_iter |-> it.A_iter, exact |-> ev.exact]

EigenFromValues(m, it, eigenvalues) ==
    EigenResult(it, eigenvalues,
        EigenVectorsFrom(m, eigenvalues,
            [eigenvectors |-> <<>>, err |-> "none", exact |-> it.exact], 1))

EigenFromIterate(m, it) == EigenFromValues(m, it, Diagonal(it.A_iter))

\* eigen with the exception of qr_decomposition (matrix.h 463) for that of
\* line 167
eigenWrongError(m, max_iter) ==
    IF ~isSquare(m)
    THEN [err |-> "invalid_argument", eigenvalues |-> <<>>, eigenvectors |-> <<>>,
          steps |-> 0, A_iter |-> m, exact |-> TRUE]
    ELSE EigenFromIterate(m,
             QRIterate([A_iter |-> m, steps |-> 0, exact |-> TRUE], 0, max_iter))

\* EigenDecomposition Matrix<T>::eigen(int max_iter) const:
\* [err, eigenvalues, eigenvectors, steps, A_iter, exact]; eigenvalues and
\* eigenvectors are what is returned when err = "none", steps counts the
\* passes of the loop of line 170 and A_iter is the local of that name
eigen(m, max_iter) ==
    IF ~isSquare(m)
    THEN [err |-> "logic_error", eigenvalues |-> <<>>, eigenvectors |-> <<>>,
          steps |-> 0, A_iter |-> m, exact |-> TRUE]
    ELSE EigenFromIterate(m,
             QRIterate([A_iter |-> m, steps |-> 0, exact |-> TRUE], 0, max_iter))

(***************************************************************************)
(* SolvingEquation.h: class SolvingEquation<T>.  A solver is the record of *)
(* its fields augmented, rrefMatrix, rrefSolver, type, particular,         *)
(* nullspace.                                                              *)
(***************************************************************************)
\* solve with the test of line 45 looking one column to the left
solveWrongColumn(s) ==
    LET n == s.augmented.cols - 1
        pivotCols == s.rrefSolver.pivotCols
    IN  IF \E k \in 1..Len(pivotCols) : pivotCols[k] = n - 1
        THEN "NoSolution"
        ELSE IF Len(pivotCols) = n THEN "UniqueSolution"
        ELSE "InfiniteSolutions"

\* SolutionType solve(): the type it assigns and returns
solve(s) ==
    LET n == s.augmented.cols - 1
        pivotCols == s.rrefSolver.pivotCols
    IN  IF \E k \in 1..Len(pivotCols) : pivotCols[k] = n
        THEN "NoSolution"
        ELSE IF Len(pivotCols) = n THEN "UniqueSolution"
        ELSE "InfiniteSolutions"

\* SolvingEquation lines 33-34 on r, what rrefSolver.toRREF() left
Classified(s0) == [s0 EXCEPT !.type = solve(s0)]

SolverFromRREF(aug, r) ==
    IF r.err # "none"
    THEN [s |-> <<>>, err |-> r.err, reduced |-> TRUE]
    ELSE [s |-> Classified([augmented |-> aug, rrefMatrix |-> r.e.mat,
                            rrefSolver |-> r.e, type |-> "unset",
                            particular |-> <<>>, nullspace |-> <<>>]),
          err |-> "none", reduced |-> TRUE]

\* SolvingEquation(A, b): [s |-> the solver built (meaningful when nothing
\* was thrown), err, reduced |-> rrefSolver.toRREF() was entered]
NewSolvingEquation(Am, b) ==
    IF Am.rows # b.rows
    THEN \* augment throws in the member initializers
         [s |-> <<>>, err |-> "invalid_argument", reduced |-> FALSE]
    ELSE IF b.rows # Am.rows \/ b.cols # 1
    THEN [s |-> <<>>, err |-> "invalid_argument", reduced |-> FALSE]
    ELSE SolverFromRREF(augment(Am, b),
                        toRREF(NewRREF(augment(Am, b)), DefaultEps))

\* ParticularFrom reading the right-hand side of row 0 for every pivot
RECURSIVE ParticularFromRowZero(_, _, _, _)
ParticularFromRowZero(s, part_vec, n, i) ==
    IF i >= Len(s.rrefSolver.pivotCols) THEN part_vec
    ELSE ParticularFromRowZero(s,
             [part_vec EXCEPT ![s.rrefSolver.pivotCols[i + 1]] = At(s.rrefMatrix, 0, n)],
             n, i + 1)

\* computeSolution lines 83-87: part_vec after the pivots 0..i-1 are written
RECURSIVE ParticularFrom(_, _, _, _)
ParticularFrom(s, part_vec, n, i) ==
    IF i >= Len(s.rrefSolver.pivotCols) THEN part_vec
    ELSE ParticularFrom(s,
             [part_vec EXCEPT ![s.rrefSolver.pivotCols[i + 1]] = At(s.rrefMatrix, i, n)],
             n, i + 1)

\* NullVector with the sign of line 96 lost
RECURSIVE NullVectorNoNeg(_, _, _, _)
NullVectorNoNeg(s, v_vec, freeCol, i) ==
    IF i >= Len(s.rrefSolver.pivotCols) THEN v_vec
    ELSE NullVectorNoNeg(s,
             [v_vec EXCEPT ![s.rrefSolver.pivotCols[i + 1]] =
                               At(s.rrefMatrix, i, freeCol)],
             freeCol, i + 1)

\* computeSolution lines 92-97: v_vec for freeCol
RECURSIVE NullVector(_, _, _, _)
NullVector(s, v_vec, freeCol, i) ==
    IF i >= Len(s.rrefSolver.pivotCols) THEN v_vec
    ELSE NullVector(s,
             [v_vec EXCEPT ![s.rrefSolver.pivotCols[i + 1]] =
                               Neg(At(s.rrefMatrix, i, freeCol))],
             freeCol, i + 1)

\* computeSolution lines 90-99
NullspaceOf(s, n, freeCols) ==
    [k \in 1..Len(freeCols) |->
        NullVector(s, [ConstVector(n, Zero) EXCEPT ![freeCols[k]] = One],
                   freeCols[k], 0)]

\* ComputeSolutionTyped without the nullspace.clear() of line 90
ComputeSolutionTypedNoClear(s1, n) ==
    IF s1.type = "NoSolution" THEN [s |-> s1, err |-> "logic_error"]
    ELSE IF s1.type = "UniqueSolution"
    THEN IF n > s1.rrefMatrix.rows
         THEN [s |-> s1, err |-> "out_of_range"]
         ELSE [s |-> [s1 EXCEPT !.particular =
                          [i \in 0..(n - 1) |-> At(s1.rrefMatrix, i, n)]],
               err |-> "none"]
    ELSE [s |-> [s1 EXCEPT
                  !.particular = ParticularFrom(s1, ConstVector(n, Zero), n, 0),
                  !.nullspace = @ \o NullspaceOf(s1, n,
                                    FreeColsFrom(s1.rrefSolver.pivotCols, 0, n))],
          err |-> "none"]

\* computeSolution lines 64-101 on s1, the solver after lines 61-62
ComputeSolutionTyped(s1, n) ==
    IF s1.type = "NoSolution" THEN [s |-> s1, err |-> "logic_error"]
    ELSE IF s1.type = "UniqueSolution"
    THEN IF n > s1.rrefMatrix.rows
         THEN [s |-> s1, err |-> "out_of_range"]
         ELSE [s |-> [s1 EXCEPT !.particular =
                          [i \in 0..(n - 1) |-> At(s1.rrefMatrix, i, n)]],
               err |-> "none"]
    ELSE [s |-> [s1 EXCEPT
                  !.particular = ParticularFrom(s1, ConstVector(n, Zero), n, 0),
                  !.nullspace = NullspaceOf(s1, n,
                                    FreeColsFrom(s1.rrefSolver.pivotCols, 0, n))],
          err |-> "none"]

\* computeSolution with the vector of line 67 built before the test of
\* line 64
computeSolutionBuildsFirst(s, eps) ==
    ComputeSolutionTyped(
        [s EXCEPT !.particular = ConstVector(s.augmented.cols - 1, Zero)],
        s.augmented.cols - 1)

\* void computeSolution(T eps): [s |-> the solver afterwards, err]
computeSolution(s, eps) ==
    ComputeSolutionTyped(
        IF s.type = "NoSolution" THEN [s EXCEPT !.type = solve(s)] ELSE s,
        s.augmented.cols - 1)

(***************************************************************************)
(* matrix.h: determinant and getInverseMatrix.                             *)
(***************************************************************************)
\* determinant line 444: the product of the diagonal from row i on
RECURSIVE DiagProduct(_, _)
DiagProduct(temp, i) ==
    IF i >= temp.rows THEN One
    ELSE Mul(At(temp, i, i), DiagProduct(temp, i + 1))

\* determinant lines 437-441: the rows row.. below row i; no entry is
\* written apart from what addScaledRow does
RECURSIVE DetEliminate(_, _, _, _)
DetEliminate(temp, row, i, eps) ==
    IF row >= temp.rows THEN temp
    ELSE IF Lt(Abs(At(temp, row, i)), eps) THEN DetEliminate(temp, row + 1, i, eps)
    ELSE DetEliminate(
             addScaledRow(temp, row, i, Neg(Div(At(temp, row, i), At(temp, i, i)))),
             row + 1, i, eps)

\* determinant lines 426-444: the loop over i with the pivot search, the
\* return 0 of line 432 and the exchange; the value before line 445
RECURSIVE DetLoop(_, _, _, _)
DetColumn(temp, sign, i, maxindex, eps) ==
    IF Lt(Abs(At(temp, maxindex, i)), eps) THEN Zero
    ELSE DetLoop(DetEliminate(IF maxindex # i THEN exchangeRows(temp, maxindex, i)
                              ELSE temp,
                              i + 1, i, eps),
                 IF maxindex # i THEN -sign ELSE sign, i + 1, eps)

DetLoop(temp, sign, i, eps) ==
    IF i >= temp.rows THEN Mul(FromInt(sign), DiagProduct(temp, 0))
    ELSE DetColumn(temp, sign, i, MaxIndexFrom(temp, i, i + 1, i), eps)

\* determinant line 445
DetClamped(det, eps) == IF Lt(Abs(det), eps) THEN Zero ELSE det

\* T determinant(T eps) const: [val, err]
determinant(m, eps) ==
    IF m.rows # m.cols THEN [val |-> Zero, err |-> "domain_error"]
    ELSE [val |-> DetClamped(DetLoop(m, 1, 0, eps), eps), err |-> "none"]

\* getInverseMatrix lines 355-361: row j.. minus factor times row i, for
\* every row but i
RECURSIVE InvEliminate(_, _, _)
InvEliminate(aug, i, j) ==
    IF j >= aug.rows THEN aug
    ELSE IF j = i THEN InvEliminate(aug, i, j + 1)
    ELSE InvEliminate(
             [aug EXCEPT !.data[j] =
                 [k \in 0..(aug.cols - 1) |->
                     Sub(aug.data[j][k], Mul(At(aug, j, i), aug.data[i][k]))]],
             i, j + 1)

\* getInverseMatrix lines 353-354: row i divided by its diagonal entry
InvScale(aug, i) ==
    [aug EXCEPT !.data[i] =
        [k \in 0..(aug.cols - 1) |-> Div(aug.data[i][k], At(aug, i, i))]]

\* getInverseMatrix lines 351-362: the loop over i, with no row exchange;
\* [aug, err, what]
RECURSIVE InvLoop(_, _, _)
InvLoop(aug, i, eps) ==
    IF i >= aug.rows THEN [aug |-> aug, err |-> "none", what |-> ""]
    ELSE IF Lt(Abs(At(aug, i, i)), eps)
    THEN [aug |-> aug, err |-> "invalid_argument", what |-> "Numerical singularity"]
    ELSE InvLoop(InvEliminate(InvScale(aug, i), i, 0), i + 1, eps)

\* getInverseMatrix lines 363-367: the right half of the augmented matrix
InverseOf(r, n) ==
    [m |-> IF r.err # "none" THEN EmptyMatrix
           ELSE [rows |-> n, cols |-> n,
                 data |-> [i \in 0..(n - 1) |->
                            [j \in 0..(n - 1) |-> At(r.aug, i, j + n)]]],
     err |-> r.err, what |-> r.what]

\* Matrix<T> getInverseMatrix(T eps) const: [m, err, what]
getInverseMatrix(m, eps) ==
    IF m.rows # m.cols
    THEN [m |-> EmptyMatrix, err |-> "invalid_argument", what |-> "Matrix not square"]
    ELSE IF Lt(Abs(determinant(m, eps).val), eps)
    THEN [m |-> EmptyMatrix, err |-> "invalid_argument", what |-> "Matrix is singular"]
    ELSE InverseOf(InvLoop(augment(m, identity(m.cols)), 0, eps), m.cols)

(***************************************************************************)
(* Inputs.  The client holds one Matrix A; it is drawn from every matrix   *)
(* of at most MaxRows x MaxCols over the integers -1..MaxVal, and from a   *)
(* list of badly scaled matrices whose entries lie next to the thresholds  *)
(* of the code (below eps = 1e-9, above 1 / 1e-9).                         *)
(***************************************************************************)
Vals == {-1} \cup 0..MaxVal

\* the matrix whose rows are the sequences of ss
Mat(ss) ==
    [rows |-> Len(ss), cols |-> Len(ss[1]),
     data |-> [i \in 0..(Len(ss) - 1) |->
                [j \in 0..(Len(ss[1]) - 1) |-> ss[i + 1][j + 1]]]]

MatricesOver(S, maxRows, maxCols) ==
    UNION {UNION {{[rows |-> r, cols |-> c, data |-> d] :
                      d \in [0..(r - 1) -> [0..(c - 1) -> {FromInt(x) : x \in S}]]} :
                  c \in 1..maxCols} :
           r \in 1..maxRows}

SmallMatrices == MatricesOver(Vals, MaxRows, MaxCols)

\* 5e-10, below eps; Tiny + Tiny is eps itself; Huge is 2e9, 1 / Huge = Tiny
Tiny == <<1, 2 * EpsDen>>
Huge == <<2 * EpsDen, 1>>

EdgeMatrices ==
    {Mat(<< <<Tiny>> >>),
     Mat(<< <<Zero, One>>, <<Tiny, Zero>> >>),
     Mat(<< <<Huge>> >>),
     Mat(<< <<One, FromInt(2)>>, <<Tiny, Zero>> >>),
     Mat(<< <<One, One>>, <<Tiny, DefaultEps>> >>),
     Mat(<< <<Tiny, DefaultEps>> >>),
     Mat(<< <<Huge, Zero>>, <<Zero, Zero>> >>),
     Mat(<< <<FromInt(5), FromInt(3)>>, <<Zero, One>> >>)}

Inputs == SmallMatrices \cup EdgeMatrices

\* right-hand sides handed to SolvingEquation: every shape up to
\* MaxRows x 2 over 0..MaxB, so that mismatched shapes occur
MaxB == 1

BInputs == MatricesOver(0..MaxB, MaxRows, 2)

\* eps arguments the client passes: the default 1e-9, and 1
EpsChoices == {DefaultEps, One}

\* iteration budgets the client passes to eigen
MaxIter == 2

(***************************************************************************)
(* The client.  It holds the matrix A and runs one demo at a time, as the  *)
(* menu loop of main.cpp does: it creates an engine (eng) or a solver      *)
(* (sol), or calls Matrix::rank (rk keeps the values returned) or          *)
(* Matrix::eigen, works on the object, and returns to the menu, which      *)
(* destroys the objects.  <<>> stands for an object that does not exist.   *)
(* out is the outcome of the last call: what it threw and what it          *)
(* returned.                                                               *)
(***************************************************************************)
NoRanks == [a |-> <<>>, t |-> <<>>]

NoOut == [op |-> "none", err |-> "none"]

Idle == eng = <<>> /\ other = <<>> /\ sol = <<>> /\ rk = NoRanks /\ out = NoOut

Init ==
    /\ A \in Inputs
    /\ eng = <<>>
    /\ other = <<>>
    /\ sol = <<>>
    /\ rk = NoRanks
    /\ out = NoOut

\* the demo returns to the menu: its locals are destroyed
Return ==
    /\ ~Idle
    /\ eng' = <<>>
    /\ other' = <<>>
    /\ sol' = <<>>
    /\ rk' = NoRanks
    /\ out' = NoOut
    /\ UNCHANGED A

\* RREF<T> engine(A)
NewEngine ==
    /\ Idle
    /\ eng' = <<NewRREF(A)>>
    /\ out' = [op |-> "RREF", err |-> "none"]
    /\ UNCHANGED <<A, other, sol, rk>>

\* engine.toREF(eps)
ToREF ==
    /\ eng # <<>>
    /\ \E eps \in EpsChoices :
          /\ eng' = <<toREF(eng[1], eps)>>
          /\ out' = [op |-> "toREF", err |-> "none", eps |-> eps]
    /\ UNCHANGED <<A, other, sol, rk>>

\* engine.toRREF(eps); r is what the call left and threw
ToRREFReturns(r, eps) ==
    /\ eng' = <<r.e>>
    /\ out' = [op |-> "toRREF", err |-> r.err, eps |-> eps]

\* ToRREF on an engine that shares its matrix with the other engine
ToRREFShared ==
    /\ eng # <<>>
    /\ \E eps \in EpsChoices : ToRREFReturns(toRREF(eng[1], eps), eps)
    /\ other' = IF other # <<>> THEN eng' ELSE other
    /\ UNCHANGED <<A, sol, rk>>

ToRREF ==
    /\ eng # <<>>
    /\ \E eps \in EpsChoices : ToRREFReturns(toRREF(eng[1], eps), eps)
    /\ UNCHANGED <<A, other, sol, rk>>

\* engine.getKernel(eps); r is what the call left, threw and returned
GetKernelReturns(r, eps) ==
    /\ eng' = <<r.e>>
    /\ out' = [op |-> "getKernel", err |-> r.err, eps |-> eps, basis |-> r.basis]

GetKernel ==
    /\ eng # <<>>
    /\ \E eps \in EpsChoices : GetKernelReturns(getKernel(eng[1], eps), eps)
    /\ UNCHANGED <<A, other, sol, rk>>

\* engine.setMatrix(A)
SetMatrix ==
    /\ eng # <<>>
    /\ eng' = <<setMatrix(eng[1], A)>>
    /\ out' = [op |-> "setMatrix", err |-> "none"]
    /\ UNCHANGED <<A, other, sol, rk>>

\* engine.getRank(), getMatrix(), getPivotCols(), getPivotRows(): noexcept,
\* each returns the field as it is
Getters ==
    /\ eng # <<>>
    /\ out' = [op |-> "getters", err |-> "none",
               rank |-> getRank(eng[1]), mat |-> getMatrix(eng[1]),
               pivotCols |-> getPivotCols(eng[1]),
               pivotRows |-> getPivotRows(eng[1])]
    /\ UNCHANGED <<A, eng, other, sol, rk>>

\* RREF<T> other(A): a second engine built from the same Matrix while an
\* engine or a solver is alive, for A of at most MaxSharedCols columns
MaxSharedCols == 2

NewOther ==
    /\ eng # <<>> \/ sol # <<>>
    /\ other = <<>>
    /\ A.cols <= MaxSharedCols
    /\ other' = <<NewRREF(A)>>
    /\ out' = [op |-> "other.RREF", err |-> "none"]
    /\ UNCHANGED <<A, eng, sol, rk>>

\* other.toRREF(eps)
OtherToRREFReturns(r, eps) ==
    /\ other' = <<r.e>>
    /\ out' = [op |-> "other.toRREF", err |-> r.err, eps |-> eps]

OtherToRREF ==
    /\ other # <<>>
    /\ \E eps \in EpsChoices : OtherToRREFReturns(toRREF(other[1], eps), eps)
    /\ UNCHANGED <<A, eng, sol, rk>>

\* SolvingEquation<T> solver(A, b); a constructor that throws leaves no object
NewSolverReturns(r, b) ==
    /\ sol' = IF r.err = "none" THEN <<r.s>> ELSE <<>>
    /\ out' = [op |-> "SolvingEquation", err |-> r.err,
               brows |-> b.rows, bcols |-> b.cols, reduced |-> r.reduced]

NewSolver ==
    /\ Idle
    /\ \E b \in BInputs : NewSolverReturns(NewSolvingEquation(A, b), b)
    /\ UNCHANGED <<A, eng, other, rk>>

\* solver.computeSolution()
ComputeSolutionReturns(r) ==
    /\ sol' = <<r.s>>
    /\ out' = [op |-> "computeSolution", err |-> r.err]

ComputeSolution ==
    /\ sol # <<>>
    /\ ComputeSolutionReturns(computeSolution(sol[1], DefaultEps))
    /\ UNCHANGED <<A, eng, other, rk>>

\* A.getInverseMatrix(eps)
GetInverseMatrixReturns(r, eps) ==
    out' = [op |-> "getInverseMatrix", err |-> r.err, what |-> r.what,
            eps |-> eps, inverse |-> r.m]

GetInverseMatrix ==
    /\ Idle
    /\ \E eps \in EpsChoices : GetInverseMatrixReturns(getInverseMatrix(A, eps), eps)
    /\ UNCHANGED <<A, eng, other, sol, rk>>

\* A.rank()
RankReturns(r) ==
    /\ rk' = [rk EXCEPT !.a = <<r>>]
    /\ out' = [op |-> "rank", err |-> r.err]

Rank ==
    /\ eng = <<>> /\ sol = <<>> /\ out.op \in {"none", "rank"}
    /\ RankReturns(rank(A))
    /\ UNCHANGED <<A, eng, other, sol>>

\* A.transpose().rank()
RankOfTransposeReturns(r) ==
    /\ rk' = [rk EXCEPT !.t = <<r>>]
    /\ out' = [op |-> "rank", err |-> r.err]

RankOfTranspose ==
    /\ eng = <<>> /\ sol = <<>> /\ out.op \in {"none", "rank"}
    /\ RankOfTransposeReturns(rank(transpose(A)))
    /\ UNCHANGED <<A, eng, other, sol>>

\* the operands eigen is called on: integer entries, and of magnitude at
\* most MaxEigenEntry when the iteration runs at all
MaxEigenEntry == 5

EigenOperand(m, max_iter) ==
    \A i \in 0..(m.rows - 1), j \in 0..(m.cols - 1) :
        /\ m.data[i][j][2] = 1
        /\ max_iter <= 0 \/ AbsInt(m.data[i][j][1]) <= MaxEigenEntry

\* A.eigen(max_iter), for the operands whose square roots are rational
EigenReturns(r, max_iter) ==
    /\ r.exact
    /\ out' = [op |-> "eigen", err |-> r.err, max_iter |-> max_iter,
               eigenvalues |-> r.eigenvalues, eigenvectors |-> r.eigenvectors,
               steps |-> r.steps, A_iter |-> r.A_iter]

Eigen ==
    /\ Idle
    /\ \E max_iter \in -1..MaxIter :
          /\ ~isSquare(A) \/ EigenOperand(A, max_iter)
          /\ EigenReturns(eigen(A, max_iter), max_iter)
    /\ UNCHANGED <<A, eng, other, sol, rk>>

Next ==
    \/ Return
    \/ NewEngine
    \/ ToREF
    \/ ToRREF
    \/ GetKernel
    \/ SetMatrix
    \/ Getters
    \/ NewOther
    \/ OtherToRREF
    \/ NewSolver
    \/ ComputeSolution
    \/ Rank
    \/ RankOfTranspose
    \/ Eigen
    \/ GetInverseMatrix

Spec == Init /\ [][Next]_vars


(***************************************************************************)
(* Reference notions the properties are stated with: products, and the     *)
(* rank of a matrix as the order of its largest nonzero minor.             *)
(***************************************************************************)
RECURSIVE RowDotFrom(_, _, _, _)
RowDotFrom(m, i, v, j) ==
    IF j >= m.cols THEN Zero
    ELSE Add(Mul(m.data[i][j], v[j]), RowDotFrom(m, i, v, j + 1))

\* component i of m . v
RowDot(m, i, v) == RowDotFrom(m, i, v, 0)

VecAdd(u, v) == [i \in DOMAIN u |-> Add(u[i], v[i])]

\* m . v is the zero vector
IsInKernel(m, v) == \A i \in 0..(m.rows - 1) : RowDot(m, i, v) = Zero

\* every component of m . v has magnitude below eps
IsInKernelWithin(m, v, eps) ==
    \A i \in 0..(m.rows - 1) : Lt(Abs(RowDot(m, i, v)), eps)

\* m . x = rhs, rhs a matrix of one column
Solves(m, x, rhs) == \A i \in 0..(m.rows - 1) : RowDot(m, i, x) = rhs.data[i][0]

SolvesWithin(m, x, rhs, eps) ==
    \A i \in 0..(m.rows - 1) : Lt(Abs(Sub(RowDot(m, i, x), rhs.data[i][0])), eps)

RECURSIVE SortedSeq(_)
SortedSeq(S) ==
    IF S = {} THEN <<>>
    ELSE LET x == CHOOSE y \in S : \A z \in S : y <= z
         IN  <<x>> \o SortedSeq(S \ {x})

RemoveAt(sq, j) == [k \in 1..(Len(sq) - 1) |-> IF k < j THEN sq[k] ELSE sq[k + 1]]

\* the determinant of the rows rs and columns cs of m (Laplace expansion
\* along the first of the rows)
RECURSIVE Det(_, _, _)
RECURSIVE DetFrom(_, _, _, _)
DetFrom(m, rs, cs, j) ==
    IF j > Len(cs) THEN Zero
    ELSE Add(Mul(IF j % 2 = 1 THEN m.data[rs[1]][cs[j]] ELSE Neg(m.data[rs[1]][cs[j]]),
                 Det(m, Tail(rs), RemoveAt(cs, j))),
             DetFrom(m, rs, cs, j + 1))

Det(m, rs, cs) == IF rs = <<>> THEN One ELSE DetFrom(m, rs, cs, 1)

HasMinor(m, k) ==
    \E R \in SUBSET (0..(m.rows - 1)) : \E C \in SUBSET (0..(m.cols - 1)) :
        /\ Cardinality(R) = k
        /\ Cardinality(C) = k
        /\ Det(m, SortedSeq(R), SortedSeq(C)) # Zero

\* the rank of m: the largest k with a nonzero k x k minor
TrueRank(m) ==
    CHOOSE k \in 0..m.rows : HasMinor(m, k) /\ \A l \in (k + 1)..m.rows : ~HasMinor(m, l)

\* the solvability of m . x = rhs (Rouche-Capelli)
TrueType(m, rhs) ==
    IF TrueRank(m) # TrueRank(augment(m, rhs)) THEN "NoSolution"
    ELSE IF TrueRank(m) = m.cols THEN "UniqueSolution"
    ELSE "InfiniteSolutions"

\* the right-hand side a solver was built with: the last column of augmented
RhsOf(s) ==
    [rows |-> s.augmented.rows, cols |-> 1,
     data |-> [i \in 0..(s.augmented.rows - 1) |->
                [j \in {0} |-> s.augmented.data[i][s.augmented.cols - 1]]]]

KernelReturned == out.op = "getKernel" /\ out.err = "none"

C2_TypeAgrees ==
    sol # <<>> => sol[1].type = TrueType(A, RhsOf(sol[1]))

(***************************************************************************)
(* C2, amended.  When no threshold of the constructor's reduction          *)
(* discarded a nonzero value, the type reported agrees with the            *)
(* solvability of A . x = b.                                               *)
(***************************************************************************)
C2_TypeAgreesExact ==
    (sol # <<>> /\ ~sol[1].rrefSolver.dropped) =>
        sol[1].type = TrueType(A, RhsOf(sol[1]))

\* a solver of an inconsistent system whose matrix is not zero, nothing
\* discarded
C2_Witness ==
    /\ sol # <<>>
    /\ ~sol[1].rrefSolver.dropped
    /\ sol[1].type = "NoSolution"
    /\ TrueRank(A) >= 1

SolutionComputed == out.op = "computeSolution" /\ out.err = "none"

RanksReturned ==
    /\ rk.a # <<>>
    /\ rk.t # <<>>
    /\ rk.a[1].err = "none"
    /\ rk.t[1].err = "none"

C6_NoSolutionRefused ==
    [][(sol # <<>> /\ sol[1].type = "NoSolution" /\ out'.op = "computeSolution")
         => (out'.err = "logic_error" /\ sol' = sol)]_vars

\* computeSolution was refused on an inconsistent system
C6_Witness ==
    /\ out.op = "computeSolution"
    /\ out.err = "logic_error"
    /\ sol # <<>>
    /\ sol[1].type = "NoSolution"
    /\ sol[1].particular = <<>>
    /\ sol[1].nullspace = <<>>

(***************************************************************************)
(* C7.  As stated: the construction of SolvingEquation(A, b) with          *)
(* rows(b) # rows(A) or cols(b) # 1 throws an invalid-argument error       *)
(* before any reduction or classification; with rows(b) = rows(A) and      *)
(* cols(b) = 1 it succeeds and the type is set when it returns.  The       *)
(* second half fails: the reduction in the constructor throws when a       *)
(* pivot is so large that its scale factor is below 1e-9.                  *)
(***************************************************************************)
C7_Construction ==
    out.op = "SolvingEquation" =>
        IF out.brows # A.rows \/ out.bcols # 1
        THEN out.err = "invalid_argument" /\ ~out.reduced /\ sol = <<>>
        ELSE /\ out.err = "none"
             /\ sol # <<>>
             /\ sol[1].type \in {"NoSolution", "UniqueSolution", "InfiniteSolutions"}

\* the first half of C7 alone
C7_ShapeRefused ==
    (out.op = "SolvingEquation" /\ (out.brows # A.rows \/ out.bcols # 1)) =>
        (out.err = "invalid_argument" /\ ~out.reduced /\ sol = <<>>)

(***************************************************************************)
(* C8.  eigen on a matrix that is not square throws a logic error before   *)
(* any factorization step, and produces no eigenvalue and no eigenvector.  *)
(***************************************************************************)
C8_NonSquareRefused ==
    (out.op = "eigen" /\ ~isSquare(A)) =>
        /\ out.err = "logic_error"
        /\ out.steps = 0
        /\ out.eigenvalues = <<>>
        /\ out.eigenvectors = <<>>

\* eigen was called with an iteration budget on a matrix that is not square
C8_Witness ==
    /\ out.op = "eigen"
    /\ ~isSquare(A)
    /\ out.max_iter >= 1
    /\ out.err # "none"

EigenReturned == out.op = "eigen" /\ out.err = "none"

\* the kernel basis of A - lam . I, computed on A by a fresh engine
ShiftKernel(lam) == getKernel(NewRREF(CharacteristicMat(A, lam)), DefaultEps).basis

\* v divided by its Euclidean length
UnitVector(v) == [i \in DOMAIN v |-> Div(v[i], Norm(v))]

\* the group of one eigenvalue: the kernel basis of A - lam . I (its
\* vectors scaled to length 1 when unit), or one zero vector when it is empty
GroupOf(basis, unit) ==
    IF basis = <<>> THEN <<ConstVector(A.rows, Zero)>>
    ELSE IF unit THEN [k \in 1..Len(basis) |-> UnitVector(basis[k])]
    ELSE basis

\* the groups of the eigenvalues lams[i], lams[i + 1], .. in that order
RECURSIVE GroupsFrom(_, _, _)
GroupsFrom(lams, i, unit) ==
    IF i > Len(lams) THEN <<>>
    ELSE GroupOf(ShiftKernel(lams[i]), unit) \o GroupsFrom(lams, i + 1, unit)

(***************************************************************************)
(* C9.  As stated: when eigen returns for an n x n matrix A, eigenvalues   *)
(* has n entries, entry i the (i, i) element of the final iterate;         *)
(* eigenvectors is the concatenation, in eigenvalue order, of one group    *)
(* per eigenvalue, the group being the kernel basis of A - lam . I or one  *)
(* zero vector of length n exactly when that basis is empty; eigenvectors  *)
(* has at least n entries.  This fails: the vectors stored are the kernel  *)
(* vectors divided by their length.                                        *)
(***************************************************************************)
C9_EigenStructure ==
    EigenReturned =>
        /\ Len(out.eigenvalues) = A.rows
        /\ \A i \in 1..A.rows : out.eigenvalues[i] = At(out.A_iter, i - 1, i - 1)
        /\ out.eigenvectors = GroupsFrom(out.eigenvalues, 1, FALSE)
        /\ Len(out.eigenvectors) >= A.rows

(***************************************************************************)
(* C9, amended.  The same, the group of an eigenvalue being the vectors    *)
(* of the kernel basis of A - lam . I each divided by its Euclidean norm.  *)
(***************************************************************************)
C9_EigenStructureUnit ==
    EigenReturned =>
        /\ Len(out.eigenvalues) = A.rows
        /\ \A i \in 1..A.rows : out.eigenvalues[i] = At(out.A_iter, i - 1, i - 1)
        /\ out.eigenvectors = GroupsFrom(out.eigenvalues, 1, TRUE)
        /\ Len(out.eigenvectors) >= A.rows

\* eigen returned, after at least one pass of the iteration, a kernel
\* vector that normalization changed
C9_Witness ==
    /\ EigenReturned
    /\ out.steps >= 1
    /\ \E i \in 1..Len(out.eigenvalues) :
          \E k \in 1..Len(ShiftKernel(out.eigenvalues[i])) :
              Norm(ShiftKernel(out.eigenvalues[i])[k]) # One

\* the engines e1 and e2 hold the same matrix and the same pivot data
SameReduction(e1, e2) ==
    /\ e1.mat = e2.mat
    /\ e1.rank = e2.rank
    /\ e1.pivotCols = e2.pivotCols
    /\ e1.pivotRows = e2.pivotRows

\* a new engine built from r.e.mat and reduced with eps ends as r.e did
ReducesToItself(e, r) == r.err = "none" /\ SameReduction(r.e, e)

\* a second toRREF(eps) on e leaves e as it is
SecondCallChangesNothing(e, r) ==
    /\ r.err = "none"
    /\ SameReduction(r.e, e)
    /\ r.e.isREF = e.isREF
    /\ r.e.isRREF = e.isRREF

\* toRREF(out.eps) has just returned on the engine built from A, and it was
\* the first reduction of that engine
FirstReductionReturned ==
    /\ out.op = "toRREF"
    /\ out.err = "none"
    /\ eng[1] = toRREF(NewRREF(A), out.eps).e

Min(a, b) == IF a <= b THEN a ELSE b

\* the rank of m is below both of its dimensions
RankDeficient(m) == TrueRank(m) < Min(m.rows, m.cols)

(***************************************************************************)
(* C11.  As stated: on an engine built from a rank-deficient matrix        *)
(* (rank < min(rows, cols)), toREF, toRREF and getKernel return normally,  *)
(* no error is raised.  This fails: toRREF, and getKernel through it,      *)
(* throws when a pivot is so large that its scale factor is below 1e-9.    *)
(***************************************************************************)
C11_RankDeficientReturns ==
    (out.op \in {"toREF", "toRREF", "getKernel"} /\ RankDeficient(A)) =>
        out.err = "none"

\* the columns of e.mat that hold no pivot, in increasing order
FreeColumns(e) ==
    SortedSeq({j \in 0..(e.mat.cols - 1) :
                  \A i \in 1..Len(e.pivotCols) : e.pivotCols[i] # j})

\* v is the kernel vector of the free column f of the reduced engine e
IsKernelVectorOf(e, v, f) ==
    /\ DOMAIN v = 0..(e.mat.cols - 1)
    /\ v[f] = One
    /\ \A i \in 1..e.rank : v[e.pivotCols[i]] = Neg(At(e.mat, e.pivotRows[i], f))
    /\ \A k \in 1..Len(FreeColumns(e)) :
          FreeColumns(e)[k] # f => v[FreeColumns(e)[k]] = Zero

(***************************************************************************)
(* C12.  getKernel returns cols - rank vectors, one per free column in     *)
(* increasing column order, each of length cols; the vector of the free    *)
(* column f has 1 at f, the negated entry (pivotRows[i], f) of the reduced *)
(* matrix at pivotCols[i] for every pivot i, and 0 at every other free     *)
(* column; the result is empty exactly when rank = cols.                   *)
(***************************************************************************)
C12_KernelShape ==
    KernelReturned =>
        /\ Len(out.basis) = eng[1].mat.cols - eng[1].rank
        /\ Len(out.basis) = Len(FreeColumns(eng[1]))
        /\ \A k \in 1..Len(out.basis) :
              IsKernelVectorOf(eng[1], out.basis[k], FreeColumns(eng[1])[k])
        /\ out.basis = <<>> <=> eng[1].rank = eng[1].mat.cols

\* getKernel returned two vectors for a matrix of rank 1, one of them with
\* a component read from the reduced matrix
C12_Witness ==
    /\ KernelReturned
    /\ eng[1].rank = 1
    /\ Len(out.basis) = 2
    /\ \E k \in 1..2 : \E j \in DOMAIN out.basis[k] : out.basis[k][j] \notin {Zero, One}

\* every call on a rank-deficient matrix without an entry above 1 / 1e-9
\* returns normally
RankDeficientReturnsUnlessHuge ==
    (/\ out.op \in {"toREF", "toRREF", "getKernel"}
     /\ RankDeficient(A)
     /\ \A i \in 0..(A.rows - 1), j \in 0..(A.cols - 1) :
           ~Gt(Abs(A.data[i][j]), <<EpsDen, 1>>)) =>
        out.err = "none"

StrictlyIncreasing(sq) == \A i \in 1..(Len(sq) - 1) : sq[i] < sq[i + 1]

\* the pivot data of the engine e are well formed
PivotDataWellFormed(e) ==
    /\ 0 <= e.rank
    /\ e.rank <= Min(e.mat.rows, e.mat.cols)
    /\ Len(e.pivotCols) = e.rank
    /\ Len(e.pivotRows) = e.rank
    /\ StrictlyIncreasing(e.pivotCols)
    /\ StrictlyIncreasing(e.pivotRows)

(***************************************************************************)
(* C13.  In every state an engine reaches by toREF, toRREF, getKernel and  *)
(* setMatrix calls (the engine of a solver included):                      *)
(* 0 <= rank <= min(rows, cols), pivotCols and pivotRows have length rank, *)
(* and both are strictly increasing.                                       *)
(***************************************************************************)
C13_PivotInvariant ==
    /\ eng # <<>> => PivotDataWellFormed(eng[1])
    /\ sol # <<>> => PivotDataWellFormed(sol[1].rrefSolver)

\* an engine that was reduced, reset by setMatrix or reduced again holds
\* two pivots
C13_Witness ==
    /\ eng # <<>>
    /\ out.op \in {"toREF", "toRREF", "getKernel"}
    /\ eng[1].rank = 2
    /\ eng[1].pivotCols = <<0, 2>>

(***************************************************************************)
(* C14.  After one or more successful computeSolution calls on a solver    *)
(* for A (m x n): particular has length n; nullspace holds n minus the     *)
(* number of pivots vectors, each of length n, and does not grow with      *)
(* repeated calls; nullspace is empty exactly when the type is not         *)
(* InfiniteSolutions.                                                      *)
(***************************************************************************)
C14_SolutionShape ==
    SolutionComputed =>
        /\ DOMAIN sol[1].particular = 0..(A.cols - 1)
        /\ Len(sol[1].nullspace) = A.cols - Len(sol[1].rrefSolver.pivotCols)
        /\ \A k \in 1..Len(sol[1].nullspace) :
              DOMAIN sol[1].nullspace[k] = 0..(A.cols - 1)
        /\ sol[1].nullspace = <<>> <=> sol[1].type # "InfiniteSolutions"

\* computeSolution returned on a system with two free unknowns
C14_Witness ==
    /\ SolutionComputed
    /\ sol[1].type = "InfiniteSolutions"
    /\ A.cols = 3
    /\ Len(sol[1].nullspace) = 2

\* the standard basis vector of length n with its 1 at position j (from 0)
UnitAt(n, j) == [i \in 0..(n - 1) |-> IF i = j THEN One ELSE Zero]

\* e_0, .., e_(n-1)
StandardBasis(n) == [k \in 1..n |-> UnitAt(n, k - 1)]

\* sq repeated times times
RECURSIVE Repeated(_, _)
Repeated(sq, times) == IF times = 0 THEN <<>> ELSE sq \o Repeated(sq, times - 1)

IsIdentity(m) ==
    /\ m.rows = m.cols
    /\ \A i \in 0..(m.rows - 1), j \in 0..(m.cols - 1) :
          m.data[i][j] = IF i = j THEN One ELSE Zero

\* rank, reduction and kernel of the identity: rank n, no kernel vector
IdentityRankAndKernel ==
    /\ rk.a # <<>> => (rk.a[1].err = "none" /\ rk.a[1].val = A.rows)
    /\ (eng # <<>> /\ out.op \in {"toREF", "toRREF", "getKernel"}) =>
          (out.err = "none" /\ eng[1].rank = A.rows)
    /\ out.op = "getKernel" => out.basis = <<>>

(***************************************************************************)
(* C15.  As stated: for A the identity of order n, rank is n, getKernel    *)
(* returns no vector, eigen returns n eigenvalues equal to 1, and the      *)
(* eigenvectors eigen returns are the standard basis e_1..e_n, n vectors.  *)
(* The last part fails for n >= 2: every one of the n eigenvalues appends  *)
(* the whole basis.                                                        *)
(***************************************************************************)
C15_Identity ==
    IsIdentity(A) =>
        /\ IdentityRankAndKernel
        /\ out.op = "eigen" =>
              /\ out.err = "none"
              /\ out.eigenvalues = [i \in 1..A.rows |-> One]
              /\ out.eigenvectors = StandardBasis(A.rows)

(***************************************************************************)
(* C15, amended.  The same, the eigenvectors being the standard basis      *)
(* e_1..e_n once per eigenvalue: n times n vectors.                        *)
(***************************************************************************)
C15_IdentityRepeated ==
    IsIdentity(A) =>
        /\ IdentityRankAndKernel
        /\ out.op = "eigen" =>
              /\ out.err = "none"
              /\ out.eigenvalues = [i \in 1..A.rows |-> One]
              /\ out.eigenvectors = Repeated(StandardBasis(A.rows), A.rows)

\* eigen ran the iteration on the identity of order 2
C15_Witness ==
    /\ IsIdentity(A)
    /\ A.rows = 2
    /\ out.op = "eigen"
    /\ out.steps >= 1
    /\ Len(out.eigenvectors) = 4

\* m is diagonal with pairwise distinct diagonal entries
IsDistinctDiagonal(m) ==
    /\ m.rows = m.cols
    /\ \A i \in 0..(m.rows - 1), j \in 0..(m.cols - 1) :
          i # j => (m.data[i][j] = Zero /\ m.data[i][i] # m.data[j][j])

\* v is a nonzero multiple of the standard basis vector with its 1 at j
ProportionalToUnit(v, n, j) ==
    /\ DOMAIN v = 0..(n - 1)
    /\ \A i \in 0..(n - 1) : (v[i] # Zero) <=> (i = j)

\* eigen returned the diagonal of A and one eigenvector along each axis
DiagonalEigenResult ==
    /\ out.err = "none"
    /\ out.eigenvalues = [i \in 1..A.rows |-> A.data[i - 1][i - 1]]
    /\ Len(out.eigenvectors) = A.rows
    /\ \A i \in 1..Len(out.eigenvectors) :
          ProportionalToUnit(out.eigenvectors[i], A.rows, i - 1)

(***************************************************************************)
(* C16.  As stated: for a diagonal matrix with pairwise distinct diagonal  *)
(* entries d_1..d_n, eigen returns the eigenvalues d_1..d_n and n          *)
(* eigenvectors, the i-th proportional to e_i.  This fails: the reduction  *)
(* of A - d_i . I throws out of eigen when two entries differ by more      *)
(* than 1 / 1e-9.                                                          *)
(***************************************************************************)
C16_DistinctDiagonal ==
    (out.op = "eigen" /\ IsDistinctDiagonal(A)) => DiagonalEigenResult

\* the same for the diagonal matrices whose entries lie within 1 / 1e-9
DistinctDiagonalUnlessHuge ==
    (/\ out.op = "eigen"
     /\ IsDistinctDiagonal(A)
     /\ \A i \in 0..(A.rows - 1) : ~Gt(Abs(A.data[i][i]), <<EpsDen, 1>>)) =>
        DiagonalEigenResult

IsZeroMatrix(m) ==
    \A i \in 0..(m.rows - 1), j \in 0..(m.cols - 1) : m.data[i][j] = Zero

(***************************************************************************)
(* C17.  For the all-zero matrix of any shape m x n: after a reduction     *)
(* rank is 0 and pivotCols and pivotRows are empty, and getKernel returns  *)
(* the n standard basis vectors e_0..e_(n-1) of length n in column order.  *)
(***************************************************************************)
C17_ZeroMatrix ==
    (IsZeroMatrix(A) /\ out.op \in {"toREF", "toRREF", "getKernel"}) =>
        /\ out.err = "none"
        /\ eng[1].rank = 0
        /\ eng[1].pivotCols = <<>>
        /\ eng[1].pivotRows = <<>>
        /\ out.op = "getKernel" => out.basis = StandardBasis(A.cols)

\* getKernel returned on the zero matrix of 2 x 3
C17_Witness ==
    /\ IsZeroMatrix(A)
    /\ A.rows = 2
    /\ A.cols = 3
    /\ KernelReturned
    /\ Len(out.basis) = 3

(***************************************************************************)
(* C18.  As stated: for every square input no failure of the              *)
(* per-eigenvalue extraction (reduction of A - lam . I, kernel,            *)
(* normalization) leaves eigen: the call returns with at least one         *)
(* eigenvector per eigenvalue.  This fails: only normalized() is inside    *)
(* the try block, an exception of getKernel leaves eigen.                  *)
(***************************************************************************)
C18_EigenAbsorbsFailures ==
    (out.op = "eigen" /\ isSquare(A)) =>
        /\ out.err = "none"
        /\ Len(out.eigenvalues) = A.rows
        /\ Len(out.eigenvectors) >= Len(out.eigenvalues)

(***************************************************************************)
(* C19.  Every engine owns a copy of its matrix: a call on one engine      *)
(* changes neither the Matrix it was built from, nor another engine built  *)
(* from the same Matrix, nor a solver; Matrix::rank and Matrix::eigen      *)
(* leave their receiver as it was.                                         *)
(***************************************************************************)
EngineOps == {"toREF", "toRREF", "getKernel", "setMatrix", "getters"}

OtherOps == {"other.RREF", "other.toRREF"}

MatrixOps == {"rank", "eigen"}

\* C19: no call changes the caller's Matrix A; a call on eng leaves other and
\* sol as they were, a call on other leaves eng and sol as they were, and
\* rank() and eigen() leave A as it was
C19_EngineIsolation ==
    [][/\ A' = A
       /\ out'.op \in EngineOps => (other' = other /\ sol' = sol)
       /\ out'.op \in OtherOps => (eng' = eng /\ sol' = sol)
       /\ out'.op \in MatrixOps => (A' = A /\ eng' = eng /\ other' = other)]_vars

\* eng was reduced to a matrix other than A after other was built, and other
\* still holds A unreduced
C19_Witness ==
    /\ out.op = "toRREF"
    /\ out.err = "none"
    /\ eng # <<>>
    /\ other # <<>>
    /\ eng[1].isRREF
    /\ eng[1].mat # A
    /\ eng[1].rank > 0
    /\ other[1].mat = A
    /\ other[1].rank = 0
    /\ ~other[1].isREF


(***************************************************************************)
(* C20.  The getters of an engine on which no reduction has been run: a    *)
(* freshly constructed or freshly setMatrix-ed engine has both flags       *)
(* false, rank 0 and empty pivot vectors.                                  *)
(***************************************************************************)
Unreduced(e) == ~e.isREF /\ ~e.isRREF

\* C20: getMatrix, getRank, getPivotCols or getPivotRows on an engine on
\* which no reduction has been run is reported as a logic error instead of
\* returning data
C20_UnreducedGettersRefused ==
    (out.op = "getters" /\ eng # <<>> /\ Unreduced(eng[1]))
        => out.err = "logic_error"

\* what the getters do on such an engine: they return, without any error,
\* rank 0, empty pivot vectors and the matrix as it was given
UnreducedGettersReturnFields ==
    (out.op = "getters" /\ eng # <<>> /\ Unreduced(eng[1]))
        => /\ out.err = "none"
           /\ out.rank = 0
           /\ out.pivotCols = <<>>
           /\ out.pivotRows = <<>>
           /\ out.mat = eng[1].mat

\* the getters returned rank 0 for an unreduced engine holding a matrix of
\* rank 2
UnreducedGettersWitness ==
    /\ out.op = "getters"
    /\ eng # <<>>
    /\ Unreduced(eng[1])
    /\ out.err = "none"
    /\ out.rank = 0
    /\ TrueRank(eng[1].mat) = 2


(***************************************************************************)
(* The library used directly: a caller that constructs Matrix objects      *)
(* from raw input, one at a time.  A is the object constructed (a          *)
(* constructor that throws leaves none), out the outcome of the last call. *)
(***************************************************************************)
\* the rows a caller can hand over: 0..MaxCols entries, each 0 or 1
RawRows == UNION {[1..n -> {Zero, One}] : n \in 0..MaxCols}

\* 0..MaxRows rows, of any lengths
RawInputs == UNION {[1..n -> RawRows] : n \in 0..MaxRows}

LibInit ==
    /\ A = EmptyMatrix
    /\ eng = <<>>
    /\ other = <<>>
    /\ sol = <<>>
    /\ rk = NoRanks
    /\ out = NoOut

LibIdle == A = EmptyMatrix /\ out = NoOut

\* the object goes out of scope
LibReturn ==
    /\ ~LibIdle
    /\ A' = EmptyMatrix
    /\ out' = NoOut
    /\ UNCHANGED <<eng, other, sol, rk>>

Constructed(r) == IF r.err = "none" THEN r.m ELSE A

\* Matrix<T> m(r, c)
ConstructDimsReturns(res, r, c) ==
    /\ A' = Constructed(res)
    /\ out' = [op |-> "Matrix(r,c)", err |-> res.err, r |-> r, c |-> c]

ConstructDims ==
    /\ LibIdle
    /\ \E r \in -1..MaxRows, c \in -1..MaxCols :
          ConstructDimsReturns(MatrixOfDims(r, c), r, c)
    /\ UNCHANGED <<eng, other, sol, rk>>

\* Matrix<T> m(v) with v an lvalue
ConstructCopyReturns(res, v) ==
    /\ A' = Constructed(res)
    /\ out' = [op |-> "Matrix(const&)", err |-> res.err, v |-> v]

ConstructCopy ==
    /\ LibIdle
    /\ \E v \in RawInputs : ConstructCopyReturns(MatrixFromRows(v), v)
    /\ UNCHANGED <<eng, other, sol, rk>>

\* Matrix<T> m(std::move(v)), or m(a temporary)
ConstructMoveReturns(res, v) ==
    /\ A' = Constructed(res)
    /\ out' = [op |-> "Matrix(&&)", err |-> res.err, v |-> v]

ConstructMove ==
    /\ LibIdle
    /\ \E v \in RawInputs : ConstructMoveReturns(MatrixFromMovedRows(v), v)
    /\ UNCHANGED <<eng, other, sol, rk>>

\* Matrix<T> m;
ConstructDefault ==
    /\ LibIdle
    /\ A' = EmptyMatrix
    /\ out' = [op |-> "Matrix()", err |-> "none"]
    /\ UNCHANGED <<eng, other, sol, rk>>

(***************************************************************************)
(* VectorSet.h.  vecs is a sequence of vectors; both constructors run the  *)
(* same steps.                                                             *)
(***************************************************************************)
\* Vector<T>(row)
VecOf(row) == [i \in 0..(Len(row) - 1) |-> row[i + 1]]

\* constructor lines 45-58: vecs as the columns, or as the rows, of A
VectorsAsMatrix(vecs, dim, orient) ==
    IF orient = "Column"
    THEN [rows |-> dim, cols |-> Len(vecs),
          data |-> [r \in 0..(dim - 1) |->
                     [c \in 0..(Len(vecs) - 1) |-> vecs[c + 1][r]]]]
    ELSE [rows |-> Len(vecs), cols |-> dim,
          data |-> [r \in 0..(Len(vecs) - 1) |->
                     [c \in 0..(dim - 1) |-> vecs[r + 1][c]]]]

\* constructor lines 60-66: rref.toRREF(), rank and pivotIndices
VectorSetReduced(vecs, dim, orient, r) ==
    [err |-> r.err, vecs |-> vecs, dim |-> dim, orientation |-> orient,
     rank |-> IF r.err = "none" THEN getRank(r.e) ELSE 0,
     pivotIndices |-> IF r.err # "none" THEN <<>>
                      ELSE IF orient = "Column" THEN getPivotCols(r.e)
                      ELSE getPivotRows(r.e)]

VectorSetFailed(vecs, orient, err) ==
    [err |-> err, vecs |-> vecs, dim |-> 0, orientation |-> orient,
     rank |-> 0, pivotIndices |-> <<>>]

\* VectorSet(const std::vector<std::vector<T>>& inputRaw, orient)
NewVectorSet(inputRaw, orient) ==
    IF inputRaw = <<>> THEN VectorSetFailed(<<>>, orient, "invalid_argument")
    ELSE IF \E i \in 1..Len(inputRaw) : Len(inputRaw[i]) # Len(inputRaw[1])
    THEN VectorSetFailed(<<>>, orient, "invalid_argument")
    ELSE IF Len(inputRaw[1]) = 0
    THEN VectorSetFailed(<<>>, orient, "invalid_argument")
    ELSE VectorSetReduced(
             [i \in 1..Len(inputRaw) |-> VecOf(inputRaw[i])],
             Len(inputRaw[1]), orient,
             toRREF(NewRREF(VectorsAsMatrix(
                        [i \in 1..Len(inputRaw) |-> VecOf(inputRaw[i])],
                        Len(inputRaw[1]), orient)),
                    DefaultEps))

\* std::vector<Vector<T>> basis() const
basis(vs) == [k \in 1..Len(vs.pivotIndices) |-> vs.vecs[vs.pivotIndices[k] + 1]]

\* int dimension() const noexcept
dimension(vs) == vs.rank

Orientations == {"Column", "Row"}

\* VectorSet<T> vSet(raw, orient); vSet.dimension(); vSet.basis()
VectorSetReturns(vs, raw) ==
    out' = [op |-> "VectorSet", err |-> vs.err, v |-> raw,
            orientation |-> vs.orientation,
            dimension |-> dimension(vs), basis |-> basis(vs)]

VectorSetBasis ==
    /\ LibIdle
    /\ \E raw \in RawInputs, orient \in Orientations :
          VectorSetReturns(NewVectorSet(raw, orient), raw)
    /\ UNCHANGED <<A, eng, other, sol, rk>>

LibNext ==
    \/ LibReturn
    \/ ConstructDims
    \/ ConstructCopy
    \/ ConstructMove
    \/ ConstructDefault
    \/ VectorSetBasis

LibSpec == LibInit /\ [][LibNext]_vars

(***************************************************************************)
(* C21.  Construction from empty or ragged input.                          *)
(***************************************************************************)
EmptyRows(v) == v = <<>> \/ \E i \in 1..Len(v) : v[i] = <<>>

RaggedRows(v) == \E i, j \in 1..Len(v) : Len(v[i]) # Len(v[j])

\* a positive shape, and every row as long as the recorded column count
WellShaped(m) ==
    /\ m.rows > 0
    /\ m.cols > 0
    /\ DOMAIN m.data = 0..(m.rows - 1)
    /\ \A i \in DOMAIN m.data : DOMAIN m.data[i] = 0..(m.cols - 1)

FromRawRows == {"Matrix(const&)", "Matrix(&&)"}

\* C21: every constructor reports empty input (zero rows or zero columns)
\* and rows of unequal length as an error, and what a constructor returns
\* without error is never 0 x 0 and never has a row whose length differs
\* from the recorded column count
C21_BadInputRefused ==
    /\ out.op \in FromRawRows =>
          IF EmptyRows(out.v) \/ RaggedRows(out.v)
          THEN out.err # "none"
          ELSE out.err = "none" /\ WellShaped(A)
    /\ out.op = "Matrix(r,c)" =>
          IF out.r <= 0 \/ out.c <= 0
          THEN out.err # "none"
          ELSE out.err = "none" /\ WellShaped(A)

\* what holds: the (r, c) constructor and the copying constructor refuse
\* every empty and every ragged input
CopyingConstructorsRefuse ==
    /\ out.op = "Matrix(const&)" =>
          IF EmptyRows(out.v) \/ RaggedRows(out.v)
          THEN out.err = "invalid_argument"
          ELSE out.err = "none" /\ WellShaped(A) /\ A = Mat(out.v)
    /\ out.op = "Matrix(r,c)" =>
          IF out.r <= 0 \/ out.c <= 0
          THEN out.err \in {"invalid_argument", "length_error"}
          ELSE out.err = "none" /\ WellShaped(A)

\* the moving constructor returned a matrix recorded as 2 x 2 whose second
\* row has one entry
MovedRaggedWitness ==
    /\ out.op = "Matrix(&&)"
    /\ out.err = "none"
    /\ RaggedRows(out.v)
    /\ A.rows = 2
    /\ A.cols = 2
    /\ DOMAIN A.data[1] = 0..0

\* the moving constructor returned a 0 x 0 matrix for empty input
MovedEmptyWitness ==
    /\ out.op = "Matrix(&&)"
    /\ out.err = "none"
    /\ out.v = <<>>
    /\ A = EmptyMatrix


(***************************************************************************)
(* C22.  VectorSet::basis() and dimension().                               *)
(***************************************************************************)
\* the matrix whose rows are the vectors of the sequence b
RowsMatrix(b, dim) == VectorsAsMatrix(b, dim, "Row")

\* b is linearly independent: the matrix of its vectors has rank Len(b)
Independent(b, dim) == b = <<>> \/ TrueRank(RowsMatrix(b, dim)) = Len(b)

EqualDimension(raw) ==
    /\ raw # <<>>
    /\ raw[1] # <<>>
    /\ \A i \in 1..Len(raw) : Len(raw[i]) = Len(raw[1])

\* basis() is a basis of the span of raw: dimension() of the input vectors,
\* linearly independent, as many as the rank of the input
IsBasisOfInput(raw, b, d) ==
    /\ Len(b) = d
    /\ \A k \in 1..Len(b) : \E i \in 1..Len(raw) : b[k] = VecOf(raw[i])
    /\ Independent(b, Len(raw[1]))
    /\ d = TrueRank(Mat(raw))

\* C22: for every non-empty set of equal-dimension vectors, in Column and in
\* Row orientation, basis() returns exactly dimension() of the input
\* vectors and they are linearly independent, a basis of the span
C22_BasisOfSpan ==
    (out.op = "VectorSet" /\ EqualDimension(out.v))
        => out.err = "none" /\ IsBasisOfInput(out.v, out.basis, out.dimension)

\* what holds: the claim in Column orientation
ColumnBasisOfSpan ==
    (out.op = "VectorSet" /\ EqualDimension(out.v) /\ out.orientation = "Column")
        => out.err = "none" /\ IsBasisOfInput(out.v, out.basis, out.dimension)

\* Row orientation returned the zero vector as the basis of {(0,0), (1,0)}
RowBasisWitness ==
    /\ out.op = "VectorSet"
    /\ out.orientation = "Row"
    /\ out.err = "none"
    /\ out.v = << <<Zero, Zero>>, <<One, Zero>> >>
    /\ out.dimension = 1
    /\ out.basis = << VecOf(<<Zero, Zero>>) >>


(***************************************************************************)
(* A caller that builds one engine from A and then calls toREF, toRREF     *)
(* and getKernel on it in any order, always with the eps it chose at the   *)
(* start (kept in out.eps).  Its first call is toREF or toRREF, so that    *)
(* every getKernel it makes comes after other calls.                       *)
(***************************************************************************)
StageInit ==
    /\ A \in Inputs
    /\ eng = <<NewRREF(A)>>
    /\ other = <<>>
    /\ sol = <<>>
    /\ rk = NoRanks
    /\ \E eps \in EpsChoices : out = [op |-> "RREF", err |-> "none", eps |-> eps]

StageNext ==
    \/ ToREF /\ out'.eps = out.eps
    \/ ToRREF /\ out'.eps = out.eps
    \/ GetKernel /\ out.op # "RREF" /\ out'.eps = out.eps

StageSpec == StageInit /\ [][StageNext]_vars

(***************************************************************************)
(* C23.  Stages on demand: the calls made before getKernel do not matter.  *)
(***************************************************************************)
\* the engine e and the kernel k are what r, a getKernel on a fresh engine,
\* left and returned
SameAsFresh(e, err, k, r) ==
    /\ err = r.err
    /\ e.mat = r.e.mat
    /\ e.rank = r.e.rank
    /\ e.pivotCols = r.e.pivotCols
    /\ e.pivotRows = r.e.pivotRows
    /\ k = r.basis

RECURSIVE LeadFrom(_, _, _)
LeadFrom(m, r, c) ==
    IF c >= m.cols THEN m.cols
    ELSE IF At(m, r, c) # Zero THEN c
    ELSE LeadFrom(m, r, c + 1)

\* the column of the leading nonzero entry of row r; cols for a zero row
Lead(m, r) == LeadFrom(m, r, 0)

\* each nonzero row's leading nonzero entry is strictly right of the
\* leading nonzero entry of the row above
EchelonRows(m) ==
    \A r \in 1..(m.rows - 1) : Lead(m, r) < m.cols => Lead(m, r - 1) < Lead(m, r)

\* every entry below a recorded pivot, in its column, is exactly 0
ZeroBelowPivots(e) ==
    \A i \in 1..e.rank : \A r \in (e.pivotRows[i] + 1)..(e.mat.rows - 1) :
        At(e.mat, r, e.pivotCols[i]) = Zero

\* C24: after toREF(eps) returns, the matrix is in row-echelon form: the
\* entries below the recorded pivots are exactly 0 and the leading nonzero
\* entries move strictly to the right from row to row
C24_RowEchelon ==
    out.op = "toREF" =>
        /\ out.err = "none"
        /\ eng[1].isREF
        /\ ZeroBelowPivots(eng[1])
        /\ EchelonRows(eng[1].mat)

\* C24 amended: the entries below the recorded pivots are exactly 0 after
\* every toREF, and the rows are in echelon order when no threshold
\* discarded a nonzero value
C24_RowEchelonExact ==
    out.op = "toREF" =>
        /\ out.err = "none"
        /\ eng[1].isREF
        /\ ZeroBelowPivots(eng[1])
        /\ ~eng[1].dropped => EchelonRows(eng[1].mat)

\* toREF exchanged the rows of a matrix of full rank and left an upper
\* triangle with two pivots
C24_Witness ==
    /\ out.op = "toREF"
    /\ out.err = "none"
    /\ ~eng[1].dropped
    /\ eng[1].rank = 2
    /\ eng[1].mat.data[0] # A.data[0]
    /\ At(A, 1, 0) # Zero
    /\ At(eng[1].mat, 1, 0) = Zero
    /\ At(eng[1].mat, 0, 1) # Zero


(***************************************************************************)
(* C25.  The iteration budget of eigen.                                    *)
(***************************************************************************)
\* C25: eigen(max_iter) on a square matrix makes exactly max_iter passes of
\* the loop A_iter = R * Q (none for max_iter <= 0), whether or not the
\* iterate still changes, and then goes on to the eigenvalues; with
\* max_iter <= 0 the eigenvalues are the diagonal of the input
C25_FixedBudget ==
    (out.op = "eigen" /\ isSquare(A)) =>
        /\ out.steps = IF out.max_iter > 0 THEN out.max_iter ELSE 0
        /\ out.eigenvalues = Diagonal(out.A_iter)
        /\ out.max_iter <= 0 =>
              (out.A_iter = A /\ out.eigenvalues = Diagonal(A))

\* eigen made both passes of a budget of 2 on a matrix other than the
\* identity that no pass changes
C25_Witness ==
    /\ out.op = "eigen"
    /\ isSquare(A)
    /\ A.rows = 2
    /\ A # identity(2)
    /\ out.max_iter = 2
    /\ out.steps = 2
    /\ out.A_iter = A
    /\ out.err = "none"

\* eigen returned the diagonal of the input for a negative budget
NegativeBudgetReturned ==
    /\ out.op = "eigen"
    /\ out.max_iter < 0
    /\ out.steps = 0
    /\ out.err = "none"
    /\ A.rows = 2
    /\ out.eigenvalues = Diagonal(A)


(***************************************************************************)
(* C26.  computeSolution reads row i of the reduced matrix for pivot i;    *)
(* the engine's pivotRows[i] is that row.                                  *)
(***************************************************************************)
\* particular has the right-hand side of the pivot's row at each pivot
\* column and 0 at each free column
ParticularByPivotRows(s, n) ==
    /\ DOMAIN s.particular = 0..(n - 1)
    /\ \A i \in 1..Len(s.rrefSolver.pivotCols) :
          s.particular[s.rrefSolver.pivotCols[i]] =
              At(s.rrefMatrix, s.rrefSolver.pivotRows[i], n)
    /\ \A f \in 0..(n - 1) :
          (\A i \in 1..Len(s.rrefSolver.pivotCols) : s.rrefSolver.pivotCols[i] # f)
              => s.particular[f] = Zero

\* every nullspace vector has, at each pivot column, minus the entry of
\* the pivot's row in the vector's free column
NullspaceByPivotRows(s, n) ==
    /\ Len(s.nullspace) = Len(FreeColsFrom(s.rrefSolver.pivotCols, 0, n))
    /\ \A k \in 1..Len(s.nullspace) : \A i \in 1..Len(s.rrefSolver.pivotCols) :
          s.nullspace[k][s.rrefSolver.pivotCols[i]] =
              Neg(At(s.rrefMatrix, s.rrefSolver.pivotRows[i],
                     FreeColsFrom(s.rrefSolver.pivotCols, 0, n)[k]))

\* C26: in the InfiniteSolutions case computeSolution leaves
\* particular[pivotCols[i]] = RREF(pivotRows[i], n) with 0 at the free
\* columns and nullspace vectors with -RREF(pivotRows[i], f) at
\* pivotCols[i]; the row index i the solver uses is the engine's
\* pivotRows[i]
C26_SolverReadsPivotRows ==
    /\ sol # <<>> =>
          \A i \in 1..Len(sol[1].rrefSolver.pivotRows) :
              sol[1].rrefSolver.pivotRows[i] = i - 1
    /\ (out.op = "computeSolution" /\ out.err = "none"
        /\ sol[1].type = "InfiniteSolutions") =>
          /\ ParticularByPivotRows(sol[1], sol[1].augmented.cols - 1)
          /\ NullspaceByPivotRows(sol[1], sol[1].augmented.cols - 1)

\* computeSolution returned for a system with two pivots and a free
\* column whose particular solution is not zero
C26_Witness ==
    /\ out.op = "computeSolution"
    /\ out.err = "none"
    /\ sol # <<>>
    /\ sol[1].type = "InfiniteSolutions"
    /\ Len(sol[1].rrefSolver.pivotCols) = 2
    /\ sol[1].rrefSolver.pivotRows = <<0, 1>>
    /\ sol[1].particular[sol[1].rrefSolver.pivotCols[2]] # Zero
    /\ Len(sol[1].nullspace) = 1


(***************************************************************************)
(* A caller that builds one engine from A, calls toREF(eps1) on it and     *)
(* then toRREF(eps2) or getKernel(eps2), with any eps1 and eps2.           *)
(***************************************************************************)
EpsInit ==
    /\ A \in Inputs
    /\ eng = <<NewRREF(A)>>
    /\ other = <<>>
    /\ sol = <<>>
    /\ rk = NoRanks
    /\ out = [op |-> "RREF", err |-> "none"]

EpsNext ==
    \/ ToREF /\ out.op = "RREF"
    \/ ToRREF /\ out.op = "toREF"
    \/ GetKernel /\ out.op = "toREF"

EpsSpec == EpsInit /\ [][EpsNext]_vars

(***************************************************************************)
(* C27.  Which eps governs the result of toRREF and getKernel after a      *)
(* toREF.                                                                  *)
(***************************************************************************)
SamePivotData(e, f) ==
    /\ e.rank = f.rank
    /\ e.pivotCols = f.pivotCols
    /\ e.pivotRows = f.pivotRows

\* C27: after toREF(eps1), toRREF(eps2) or getKernel(eps2) on the same
\* engine yields the rank, the pivots and the kernel of toRREF(eps2) or
\* getKernel(eps2) on a fresh engine built from the same matrix
C27_EpsOfTheCall ==
    /\ out.op = "toRREF" =>
          /\ out.err = toRREF(NewRREF(A), out.eps).err
          /\ SamePivotData(eng[1], toRREF(NewRREF(A), out.eps).e)
    /\ out.op = "getKernel" =>
          /\ out.err = getKernel(NewRREF(A), out.eps).err
          /\ SamePivotData(eng[1], getKernel(NewRREF(A), out.eps).e)
          /\ out.basis = getKernel(NewRREF(A), out.eps).basis

\* C27 amended: toRREF(eps2) and getKernel(eps2) after toREF(eps1) keep the
\* rank and the pivots that toREF(eps1) found, and the result is that of a
\* fresh engine when eps1 = eps2
C27_EpsOfTheFirstStage ==
    [][(out.op = "toREF" /\ out'.op \in {"toRREF", "getKernel"}) =>
          /\ SamePivotData(eng'[1], eng[1])
          /\ out'.eps = out.eps =>
                /\ eng'[1] = toRREF(NewRREF(A), out'.eps).e
                /\ out'.err = toRREF(NewRREF(A), out'.eps).err
                /\ out'.op = "getKernel" =>
                      out'.basis = getKernel(NewRREF(A), out'.eps).basis]_vars

\* getKernel(1e-9) returned with the one pivot that toREF(1) had found in a
\* matrix of rank 2
C27_Witness ==
    /\ out.op = "getKernel"
    /\ out.err = "none"
    /\ out.eps = DefaultEps
    /\ eng[1].rank = 1
    /\ Len(out.basis) = 1
    /\ A.rows = 2
    /\ A.cols = 2
    /\ TrueRank(A) = 2
    /\ getKernel(NewRREF(A), DefaultEps).e.rank = 2


(***************************************************************************)
(* C28.  getInverseMatrix on a square matrix whose determinant is not      *)
(* below eps.                                                              *)
(***************************************************************************)
\* the determinant of a square matrix by cofactors
TrueDet(m) ==
    Det(m, [i \in 1..m.rows |-> i - 1], [j \in 1..m.cols |-> j - 1])

Invertible(m, eps) == isSquare(m) /\ ~Lt(Abs(TrueDet(m)), eps)

\* C28: for every square A whose determinant has magnitude at least eps,
\* getInverseMatrix returns a matrix B with A . B = identity; it raises an
\* error only when A is not square or is singular
C28_InverseOfInvertible ==
    out.op = "getInverseMatrix" =>
        /\ Invertible(A, out.eps) =>
              (out.err = "none" /\ MatMul(A, out.inverse) = identity(A.rows))
        /\ out.err # "none" => (~isSquare(A) \/ Lt(Abs(TrueDet(A)), out.eps))

\* what holds: a matrix that is returned is the inverse, and a matrix that
\* is not square or has a determinant below eps is refused
InverseWhenReturned ==
    out.op = "getInverseMatrix" =>
        /\ out.err = "none" =>
              (isSquare(A) /\ MatMul(A, out.inverse) = identity(A.rows))
        /\ (~isSquare(A) \/ Lt(Abs(TrueDet(A)), out.eps))
              => out.err = "invalid_argument"

\* the exchange matrix [[0, 1], [1, 0]], determinant -1, was refused with
\* "Numerical singularity"
InverseRefusedWitness ==
    /\ out.op = "getInverseMatrix"
    /\ A = Mat(<< <<Zero, One>>, <<One, Zero>> >>)
    /\ out.eps = DefaultEps
    /\ out.err = "invalid_argument"
    /\ out.what = "Numerical singularity"


=============================================================================
